---- MODULE Spec2Model ----
(***************************************************************************)
(* A model of astlog's log reader (src/astlog/reader.py): the SIP dialog   *)
(* state machine, the SIP message assembler, the line driver load_file     *)
(* with its chan_sip.c / pbx.c / app_dial.c / manager.c sub-parsers, the   *)
(* Dial life cycle, and the binary search find_file_position.              *)
(*                                                                         *)
(* Byte strings are TLA+ strings; Python's None is the value None below.   *)
(* A log line is a record [kind, acall, x, y]: kind names the pattern the  *)
(* line's text matches, acall the [C-...] token link_acall extracts from   *)
(* it, x and y the spans the sub-parser's find/delimited calls extract.    *)
(***************************************************************************)
EXTENDS Integers, Sequences, FiniteSets, TLC

VARIABLES
    max_lines,     \* the number of lines the log may hold (a bound)
    pc,            \* load_file: "parsing", "done" (returned), "aborted" (raised)
    line_no,       \* load_file's line_no (zero based; -1 before the first line)
    when,          \* load_file's when: the latest timestamp text
    acall,         \* load_file's acall: the acall_id of the latest '[' line
    sip,           \* load_file's sip: index in sip_messages of the message
                   \* being assembled, 0 for None
    sip_messages,  \* LogParser.sip_messages: every SipMessage, by creation
    dialogs,       \* LogParser.dialogs: call_id -> SipDialog
    call_timeouts, \* LogParser.call_timeouts: call_id -> <<line_no, when>>
    links,         \* LogParser's maps: call_sip_map, call_lines,
                   \* call_acall_map, phone_sip_map, phone_channel_map,
                   \* pickup_chans
    acalls,        \* LogParser.acalls: acall_id -> LogAstCall
    channels,      \* LogParser.channels: name -> LogChannel
    dials,         \* every LogDial object, by creation
    fnd,           \* find_file_position: the file and the search's locals
    rd,            \* read_data: the file, the parser's window and the outcome
    qry,           \* the latest query on the finished graph and its result
    txt,           \* the lines of the log load_file reads, when given as text
    progress,      \* what the progress callback of reload_file has seen
    cdr            \* load_cdr: the CDR file, the window and the loop's locals

vars == <<max_lines, pc, line_no, when, acall, sip, sip_messages, dialogs,
          call_timeouts, links, acalls, channels, dials, fnd, rd, qry, txt,
          progress, cdr>>

None == "None"

\* Python truthiness of an optional byte string.
Truthy(s) == s # None /\ s # ""

\* Python's `a or b` on optional byte strings.
PyOr(a, b) == IF Truthy(a) THEN a ELSE b

Max(S) == CHOOSE x \in S : \A y \in S : y <= x

Min(S) == CHOOSE x \in S : \A y \in S : x <= y

\* The first byte of the status texts and methods the model uses
\* (what bytes.startswith(b'1') looks at).
FirstByte(s) ==
    CASE s = "100 Trying" -> "1"
      [] s = "180 Ringing" -> "1"
      [] s = "200 OK" -> "2"
      [] s = "486 Busy Here" -> "4"
      [] OTHER -> ""

StartsWith(s, c) == s # None /\ FirstByte(s) = c

CallIds == {"X", "Y", "X@h"}

AcallIds == {"A", "B"}

ChanNames == {"SIP/a-1", "SIP/b-1", "SIP/c-1"}

\* The names and numbers the From / To headers and the dialplan mention.
Phones == {"100", "200", "a", "b", "c", "Alice"}

----------------------------------------------------------------------------
(* SipMessage *)

SipMessage(ln, direction, peer_addr, is_nat, w, ac, intro) ==
    [line_no |-> ln, direction |-> direction, peer_addr |-> peer_addr,
     is_nat |-> is_nat, when |-> w, acall |-> ac, intro_line |-> intro,
     attempt_no |-> "0", header |-> <<>>, body |-> <<>>, where |-> 0,
     dialog |-> None, request |-> None, request_addr |-> None,
     status |-> None, from_name |-> None, from_num |-> None,
     from_addr |-> None, to_name |-> None, to_num |-> None,
     to_addr |-> None, call_id |-> None, cseq |-> None, via_addr |-> None,
     request_sip |-> 0, sender_addr |-> None, recipient_addr |-> None]

----------------------------------------------------------------------------
(* Log lines *)

\* A line: kind is the pattern its text matches; acall is the [C-...] token
\* of a '[' line (None when it has none); when is the text between '[' and
\* ']'; x, y and z are the spans the parsers extract from it:
\*   blank         the empty line
\*   banner_in     <--- SIP read from UDP:x --->
\*   banner_out    <--- Transmitting (y) to x --->       (y: NAT or no NAT)
\*   banner_rel    <--- Reliably Transmitting (y) to x --->
\*   separator     a line of dashes: begins with '---' or '<--', no banner
\*   status        SIP/2.0 x
\*   request       x sip:user@y SIP/2.0
\*   token         a non-empty line with no space in it
\*   From, To      From: / To: "x" <sip:y@z>  (x None: no name; z None: no @)
\*   Call-ID       Call-ID: x
\*   Via           Via: SIP/2.0/UDP x;...    (x None: no ';')
\*   CSeq          CSeq: x
\*   text          any other line not beginning with '[', '<--' or '---'
\*   ts_malformed  begins with '[' and has no ']' after index 5, no space
\*   ts_plain      [when] text with no module tag
\*   cs_*, pbx_*, ad_*, mgr_*   [when] ... <module tag> ..., see the parsers
Line(kind, ac, w, x, y, z, u) ==
    [kind |-> kind, acall |-> ac, when |-> w, x |-> x, y |-> y, z |-> z,
     u |-> u]

SipLine(kind, x, y, z) == Line(kind, None, None, x, y, z, <<>>)

TsKinds ==
    {"ts_malformed", "ts_plain", "cs_transmit", "cs_reliably",
     "cs_retransmit", "cs_destroy", "cs_timeout", "pbx_fallthrough",
     "pbx_exec", "pbx_spawn", "ad_called", "ad_ringing", "ad_busy",
     "ad_progress", "ad_answered", "ad_nobody", "ad_everyone", "ft_pickup",
     "mgr_hangup"}

BannerKinds == {"banner_in", "banner_out", "banner_rel"}

\* Mutant of StartsWithDashes: only '<--' is tested.
StartsWithArrow(l) == l.kind \in BannerKinds

\* line.startswith(b'<--') or line.startswith(b'---')
StartsWithDashes(l) == l.kind \in BannerKinds \cup {"separator"}

\* The text of a line up to its first space, for the lines that have one.
FirstWord(l) ==
    CASE l.kind = "request" -> l.x
      [] l.kind = "From" -> "From:"
      [] l.kind = "To" -> "To:"
      [] l.kind = "Call-ID" -> "Call-ID:"
      [] l.kind = "Via" -> "Via:"
      [] l.kind = "CSeq" -> "CSeq:"
      [] l.kind \in TsKinds -> "[ts"
      [] OTHER -> "word"

\* addr of parse_from_to: ':5060' is appended to a host with no ':' in it.
WithPort(host) ==
    CASE host = "h" -> "h:5060"
      [] host = "10.0.0.1" -> "10.0.0.1:5060"
      [] host = "10.0.0.2" -> "10.0.0.2:5060"
      [] OTHER -> host

----------------------------------------------------------------------------
(* SipMessage.add_header and add_line *)

\* Mutant of FirstHeader: a status line is also parsed as a request line
\* (the `else` is lost), so request holds its first word.
FirstHeaderNoElse(m, l) ==
    IF l.kind = "status"
    THEN [raised |-> FALSE,
          m |-> [m EXCEPT !.status = l.x, !.request = "SIP/2.0"]]
    ELSE IF l.kind = "request"
    THEN [raised |-> FALSE,
          m |-> [m EXCEPT !.request = l.x, !.request_addr = l.y]]
    ELSE IF l.kind \in {"token", "ts_malformed"}
    THEN [raised |-> TRUE, m |-> m]
    ELSE [raised |-> TRUE, m |-> [m EXCEPT !.request = FirstWord(l)]]

\* add_header on the first header line: [raised, m]. A line that is not a
\* status line needs a space (line.index raises ValueError without one) and
\* a 'sip:' ... ' ' span (delimited returns None and None.find raises
\* AttributeError, after request was assigned).
FirstHeader(m, l) ==
    IF l.kind = "status"
    THEN [raised |-> FALSE, m |-> [m EXCEPT !.status = l.x]]
    ELSE IF l.kind = "request"
    THEN [raised |-> FALSE,
          m |-> [m EXCEPT !.request = l.x, !.request_addr = l.y]]
    ELSE IF l.kind \in {"token", "ts_malformed"}
    THEN [raised |-> TRUE, m |-> m]
    ELSE [raised |-> TRUE, m |-> [m EXCEPT !.request = FirstWord(l)]]

\* add_header on a later header line.
HeaderField(m, l) ==
    CASE l.kind = "From" ->
           [m EXCEPT !.from_name = l.x, !.from_num = l.y,
                     !.from_addr = IF l.z = None THEN None
                                   ELSE WithPort(l.z)]
      [] l.kind = "To" ->
           [m EXCEPT !.to_name = l.x, !.to_num = l.y,
                     !.to_addr = IF l.z = None THEN None ELSE WithPort(l.z)]
      [] l.kind = "Call-ID" -> [m EXCEPT !.call_id = l.x]
      [] l.kind = "Via" -> [m EXCEPT !.via_addr = l.x]
      [] l.kind = "CSeq" -> [m EXCEPT !.cseq = l.x]
      [] OTHER -> m

\* add_header: [raised, m]; the line joins the header unless it raised.
AddHeader(m, l) ==
    LET h == IF m.header = <<>> THEN FirstHeader(m, l)
             ELSE [raised |-> FALSE, m |-> HeaderField(m, l)]
    IN  IF h.raised THEN h
        ELSE [raised |-> FALSE, m |-> [h.m EXCEPT !.header = Append(@, l)]]

\* add_line: [res, m] with res "accept" (True), "reject" (False) or "raise".
AddLine(m, l) ==
    IF StartsWithDashes(l) THEN [res |-> "reject", m |-> m]
    ELSE IF m.where = 0
    THEN IF l.kind # "blank"
         THEN LET h == AddHeader(m, l)
              IN  [res |-> IF h.raised THEN "raise" ELSE "accept", m |-> h.m]
         ELSE [res |-> "accept", m |-> [m EXCEPT !.where = 1]]
    ELSE IF m.where = 1
    THEN IF l.kind # "blank"
         THEN [res |-> "accept",
               m |-> [m EXCEPT !.body = Append(@, l), !.where = 2]]
         ELSE [res |-> "reject", m |-> m]
    ELSE IF m.where = 2
    THEN IF l.kind # "blank"
         THEN [res |-> "accept", m |-> [m EXCEPT !.body = Append(@, l)]]
         ELSE [res |-> "accept", m |-> [m EXCEPT !.where = 3]]
    ELSE IF l.kind # "blank"
         THEN [res |-> "accept",
               m |-> [m EXCEPT !.body = Append(Append(@, SipLine("blank",
                                            None, None, None)), l),
                               !.where = 2]]
         ELSE [res |-> "reject", m |-> m]

----------------------------------------------------------------------------
(* SipDialog *)

NoDialog == [call_id |-> None]

SipDialogInit(call_id, m) ==
    [call_id |-> call_id, sip_list |-> <<>>, request |-> m.request,
     dialog_status |-> None, dialog_ack |-> None,
     is_establishing |-> (m.request = "INVITE"),
     was_established |-> FALSE, had_bye |-> FALSE, bye_addr |-> None,
     timeout |-> <<>>]

\* Mutant of ByeAllowed: a BYE is recorded again after the first one.
ByeAllowedOnceEstablished(d) == d.was_established

\* Mutant of EstablishedBy: any status establishes.
EstablishedByAnyStatus(status) == Truthy(status)

\* Mutant of EstablishedBy: only a 2xx status establishes.
EstablishedByOnly2xx(status) == Truthy(status) /\ StartsWith(status, "2")

\* The test add_sip makes of dialog_status when the ACK arrives.
EstablishedBy(status) ==
    Truthy(status) /\ (StartsWith(status, "1") \/ StartsWith(status, "2"))

\* Mutant of ByeAllowed: the BYE branch no longer requires was_established.
ByeAllowedAnyTime(d) == ~d.had_bye

\* The guard of add_sip's BYE branch.
ByeAllowed(d) == d.was_established /\ ~d.had_bye

\* Mutant of SipListAdd: the message is put at the head of the list.
SipListAddFirst(list, i) == <<i>> \o list

\* self.sip_list.append(sip)
SipListAdd(list, i) == Append(list, i)

\* Mutant of AfterInvite: an INVITE after an ACK does not reset.
AfterInviteUnlessAcked(d) ==
    IF d.dialog_ack # None THEN d ELSE [d EXCEPT !.is_establishing = TRUE]

\* add_sip's INVITE branch: "We can have multiple INVITE messages -> reset"
AfterInvite(d) == [d EXCEPT !.is_establishing = TRUE]

\* add_sip of message m, whose index in sip_messages is i.
AddSip(d, i, m) ==
    LET d1 ==
        IF m.request = "INVITE"
        THEN AfterInvite(d)
        ELSE IF d.is_establishing
        THEN IF Truthy(m.status)
             THEN [d EXCEPT !.dialog_status = m.status]
             ELSE IF m.request = "ACK"
             THEN [d EXCEPT !.dialog_ack = m.request,
                            !.is_establishing = FALSE,
                            !.was_established =
                                @ \/ EstablishedBy(d.dialog_status)]
             ELSE d
        ELSE IF ByeAllowed(d)
        THEN IF m.request = "BYE"
             THEN [d EXCEPT !.bye_addr = m.sender_addr, !.had_bye = TRUE]
             ELSE d
        ELSE IF d.request # "INVITE" /\ Truthy(m.status)
        THEN [d EXCEPT !.dialog_status = m.status]
        ELSE d
    IN  [d1 EXCEPT !.sip_list = SipListAdd(@, i)]

----------------------------------------------------------------------------
(* SipMessage.finalize_sip *)

\* Mutant of MatchRequest: the earliest such message of the dialog.
MatchRequestEarliest(m, d, msgs) ==
    LET cand == {k \in 1..Len(d.sip_list) :
                    /\ Truthy(msgs[d.sip_list[k]].request)
                    /\ msgs[d.sip_list[k]].cseq = m.cseq}
    IN  IF cand = {} THEN 0 ELSE d.sip_list[Min(cand)]

\* The request the response m answers: the latest message of the dialog
\* with a request and m's cseq; 0 when there is none.
MatchRequest(m, d, msgs) ==
    LET cand == {k \in 1..Len(d.sip_list) :
                    /\ Truthy(msgs[d.sip_list[k]].request)
                    /\ msgs[d.sip_list[k]].cseq = m.cseq}
    IN  IF cand = {} THEN 0 ELSE d.sip_list[Max(cand)]

\* Mutant of SenderOf: a request coming IN is given the To address as sender.
SenderOfSwapped(m, msgs) ==
    IF Truthy(m.request)
    THEN IF m.direction = "IN" THEN m.to_addr ELSE m.via_addr
    ELSE IF m.direction = "IN"
         THEN IF m.request_sip # 0
              THEN msgs[m.request_sip].recipient_addr
              ELSE m.sender_addr
         ELSE m.to_addr

SenderOf(m, msgs) ==
    IF Truthy(m.request)
    THEN m.via_addr
    ELSE IF m.direction = "IN"
         THEN IF m.request_sip # 0
              THEN msgs[m.request_sip].recipient_addr
              ELSE m.sender_addr
         ELSE m.to_addr

RecipientOf(m) ==
    IF Truthy(m.request)
    THEN IF m.direction = "IN"
         THEN PyOr(m.to_addr, m.request_addr)
         ELSE m.request_addr
    ELSE m.via_addr

\* finalize_sip of m, whose dialog d is already set.
FinalizeSip(m, d, msgs) ==
    LET m1 == IF ~Truthy(m.request)
              THEN [m EXCEPT !.request_sip = MatchRequest(m, d, msgs)]
              ELSE m
    IN  [m1 EXCEPT !.sender_addr = SenderOf(m1, msgs),
                   !.recipient_addr = RecipientOf(m1)]

----------------------------------------------------------------------------
(* LogAstCall and the parser's link maps *)

NoAcall ==
    [acall_id |-> None, line_no |-> -1, when |-> None, lines |-> <<>>,
     sip_set |-> {}, channel_set |-> {}, call_id_set |-> {},
     current_dial |-> 0, current_queue |-> 0]

LogAstCall(id, ln, w) == [NoAcall EXCEPT !.acall_id = id, !.line_no = ln,
                                          !.when = w]

InitLinks ==
    [call_sip_map |-> [c \in CallIds |-> <<>>],
     call_lines |-> [c \in CallIds |-> <<>>],
     call_acall_map |-> [c \in CallIds |-> {}],
     phone_sip_map |-> [p \in Phones |-> <<>>],
     phone_channel_map |-> [p \in Phones \cup {None} |-> {}],
     pickup_chans |-> [n \in ChanNames |-> <<>>]]

\* link_call on the link maps: the line li is recorded for call_id, and the
\* call is tied to the AstCall ac when there is one.
LinkCallLinks(lk, li, call_id, ac) ==
    IF ~Truthy(call_id) THEN lk
    ELSE [lk EXCEPT !.call_lines[call_id] = Append(@, li),
                    !.call_acall_map[call_id] =
                        IF ac # None THEN @ \cup {ac} ELSE @]

\* link_call on the AstCalls.
LinkCallAcalls(acs, call_id, ac) ==
    IF Truthy(call_id) /\ ac # None
    THEN [acs EXCEPT ![ac].call_id_set = @ \cup {call_id}]
    ELSE acs

\* dict.setdefault(key, []).append(i) for a key that may be None or empty.
PhoneSipAdd(map, key, i) ==
    IF Truthy(key) THEN [map EXCEPT ![key] = Append(@, i)] ELSE map

----------------------------------------------------------------------------
(* LogChannel and LogDial *)

NoChannel ==
    [name |-> None, line_no |-> -1, when |-> None, apps |-> <<>>,
     extensions |-> {}, lines |-> <<>>, acall_set |-> {}, sip_set |-> {},
     current_dial |-> 0, current_queue |-> 0,
     clid_name |-> None, clid_num |-> None]

LogChannel(name, ln, w) ==
    [NoChannel EXCEPT !.name = name, !.line_no = ln, !.when = w]

\* device_phone: the text after the last '/'.
DevicePhone(device) ==
    CASE device = "SIP/a" -> "a"
      [] device = "SIP/b" -> "b"
      [] device = "SIP/c" -> "c"
      [] OTHER -> device

\* channel_phone: the text between the last '/' and the next '-'.
ChannelPhone(chan) ==
    CASE chan = "SIP/a-1" -> "a"
      [] chan = "SIP/b-1" -> "b"
      [] chan = "SIP/c-1" -> "c"
      [] OTHER -> chan

\* The phones of start_dial: app_data, given as its tokens (device names,
\* "&" and ","), is cut at its first comma when that is not the first
\* token, split at "&", and each device is mapped by device_phone.
DialPhones(data) ==
    LET commas == {k \in 1..Len(data) : data[k] = ","}
        cut == IF commas # {} /\ Min(commas) > 1
               THEN SubSeq(data, 1, Min(commas) - 1)
               ELSE data
        devs == SelectSeq(cut, LAMBDA t : t # "&")
    IN  [k \in 1..Len(devs) |-> DevicePhone(devs[k])]

\* A LogDial as constructed. n_finish and ended are history, not fields of
\* the class: the number of finish() calls so far, and whether finish() or
\* nobody_picked_up() has run.
LogDial(chan, ln, w, extension, phones) ==
    [channel |-> chan, line_no |-> ln, when |-> w, extension |-> extension,
     phones |-> phones, log |-> <<>>, status |-> "ACTIVE",
     was_busy |-> FALSE, n_finish |-> 0, ended |-> FALSE]

LogEntry(ln, w, state, phone, chan) ==
    [line_no |-> ln, when |-> w, state |-> state, phone |-> phone,
     chan |-> chan]

DialCalled(d, ln, w, device) ==
    [d EXCEPT !.log = Append(@, LogEntry(ln, w, "CALL", DevicePhone(device),
                                         device))]

\* Mutant of DialRinging: the status becomes RINGING whatever it was.
DialRingingAlways(d, ln, w, chan) ==
    [d EXCEPT !.log = Append(@, LogEntry(ln, w, "RINGING",
                                         ChannelPhone(chan), chan)),
              !.status = "RINGING"]

DialRinging(d, ln, w, chan) ==
    [d EXCEPT !.log = Append(@, LogEntry(ln, w, "RINGING",
                                         ChannelPhone(chan), chan)),
              !.status = IF @ = "ACTIVE" THEN "RINGING" ELSE @]

\* Mutant of DialBusy: the event is recorded at the line of the Dial.
DialBusyAtDialLine(d, ln, w, chan) ==
    [d EXCEPT !.log = Append(@, LogEntry(d.line_no, w, "BUSY",
                                         ChannelPhone(chan), chan)),
              !.was_busy = TRUE]

DialBusy(d, ln, w, chan) ==
    [d EXCEPT !.log = Append(@, LogEntry(ln, w, "BUSY", ChannelPhone(chan),
                                         chan)),
              !.was_busy = TRUE]

\* Mutant of DialProgress: the channel making progress is compared with
\* the dial's channel.
DialProgressFirstNamed(d, ln, w, chan1, chan2) ==
    IF chan2 = d.channel
    THEN [d EXCEPT !.log = Append(@, LogEntry(ln, w, "PROGRESS",
                                              ChannelPhone(chan2), chan2))]
    ELSE d

\* progress(line_no, when, chan1, chan2)
DialProgress(d, ln, w, chan1, chan2) ==
    IF chan1 = d.channel
    THEN [d EXCEPT !.log = Append(@, LogEntry(ln, w, "PROGRESS",
                                              ChannelPhone(chan2), chan2))]
    ELSE d

DialPickup(d, ln, w, ringing_chan) ==
    [d EXCEPT !.log = Append(@, LogEntry(ln, w, "PICKUP",
                                         ChannelPhone(ringing_chan),
                                         ringing_chan)),
              !.status = "PICKUP"]

DialAnswered(d, ln, w, chan1, chan2) ==
    IF chan1 = d.channel
    THEN [d EXCEPT !.log = Append(@, LogEntry(ln, w, "ANSWERED",
                                              ChannelPhone(chan2), chan2)),
                   !.status = "ANSWERED"]
    ELSE d

\* Mutant of FinishStatus: was_busy is tested before RINGING.
FinishStatusBusyFirst(d) ==
    IF d.was_busy THEN "BUSY"
    ELSE IF d.status = "RINGING" THEN "NO ANSWER"
    ELSE IF d.status \notin {"ANSWERED", "NO ANSWER", "PICKUP"} THEN "EXIT"
    ELSE d.status

\* Mutant of FinishStatus: only NO ANSWER and PICKUP are kept.
FinishStatusAnsweredExits(d) ==
    IF d.status = "RINGING" THEN "NO ANSWER"
    ELSE IF d.was_busy THEN "BUSY"
    ELSE IF d.status \notin {"NO ANSWER", "PICKUP"} THEN "EXIT"
    ELSE d.status

\* The status finish() leaves.
FinishStatus(d) ==
    IF d.status = "RINGING" THEN "NO ANSWER"
    ELSE IF d.was_busy THEN "BUSY"
    ELSE IF d.status \notin {"ANSWERED", "NO ANSWER", "PICKUP"} THEN "EXIT"
    ELSE d.status

\* finish() on the dial.
DialFinish(d) ==
    [d EXCEPT !.status = FinishStatus(d), !.n_finish = @ + 1,
              !.ended = TRUE]

\* extension_exited() on the dial.
DialExtensionExited(d, ln, w) ==
    DialFinish([d EXCEPT !.log = Append(@, LogEntry(ln, w, "EXIT", None,
                                                    None))])

\* manager_hangup() on the dial.
DialManagerHangup(d, ln, w, chan) ==
    IF chan = d.channel
    THEN DialFinish([d EXCEPT !.log = Append(@, LogEntry(ln, w, "HANGUP",
                                                         "manager", chan))])
    ELSE d

\* nobody_picked_up() on the dial.
DialNobodyPickedUp(d, ln, w) ==
    [d EXCEPT !.log = Append(@, LogEntry(ln, w, "NO ANSWER", None, None)),
              !.status = "NO ANSWER", !.ended = TRUE]

\* What finish() and nobody_picked_up() do to the dial's channel:
\* self.channel.current_dial = None.
ChannelAfterEnd(chs, d) == [chs EXCEPT ![d.channel].current_dial = 0]

\* link_chan on the channels: the channel is created on first sight,
\* collects the line and the AstCall.
LinkChanChannels(chs, chan, ln, w, ac) ==
    IF ~Truthy(chan) THEN chs
    ELSE LET c == IF chs[chan].name = None THEN LogChannel(chan, ln, w)
                  ELSE chs[chan]
         IN  [chs EXCEPT ![chan] =
                 [c EXCEPT !.lines = Append(@, ln),
                           !.acall_set = IF ac # None THEN @ \cup {ac}
                                         ELSE @]]

\* link_chan on the AstCalls.
LinkChanAcalls(acs, chan, ac) ==
    IF Truthy(chan) /\ ac # None
    THEN [acs EXCEPT ![ac].channel_set = @ \cup {chan}]
    ELSE acs

\* Mutant of FindOkSipFrom: the earliest such message.
FindOkSipFromEarliest(msgs, from_num, first, last) ==
    LET ok == {i \in 1..Len(msgs) :
                  /\ msgs[i].line_no >= first
                  /\ msgs[i].line_no <= last
                  /\ msgs[i].from_num = from_num
                  /\ msgs[i].status = "200 OK"}
    IN  IF ok = {} THEN 0 ELSE Min(ok)

\* find_ok_sip_from: the latest message whose line_no is within
\* [first, last], with status 200 OK and the given from_num; the scan from
\* the end stops at the first message before `first`. 0 for None.
FindOkSipFrom(msgs, from_num, first, last) ==
    LET early == {i \in 1..Len(msgs) : msgs[i].line_no < first}
        stop == IF early = {} THEN 0 ELSE Max(early)
        ok == {i \in (stop + 1)..Len(msgs) :
                  /\ msgs[i].line_no <= last
                  /\ msgs[i].from_num = from_num
                  /\ msgs[i].status = "200 OK"}
    IN  IF ok = {} THEN 0 ELSE Max(ok)

----------------------------------------------------------------------------
(* LogParser.finish_sip *)

\* The timeout finish_sip stores in the dialog: call_timeouts.get(call_id).
DialogTimeout(d, timeouts) == timeouts[d.call_id]

\* finish_sip of message i of msgs: the primed values of sip_messages,
\* dialogs, links and acalls.
FinishSip(msgs, i) ==
    LET m == msgs[i]
        has_id == Truthy(m.call_id)
        d0 == IF has_id
              THEN IF dialogs[m.call_id].call_id = None
                   THEN SipDialogInit(m.call_id, m)
                   ELSE dialogs[m.call_id]
              ELSE NoDialog
        m1 == IF has_id
              THEN FinalizeSip([m EXCEPT !.dialog = m.call_id], d0, msgs)
              ELSE m
        d1 == AddSip(d0, i, m1)
        d2 == [d1 EXCEPT !.timeout = DialogTimeout(d1, call_timeouts)]
        lk1 == IF has_id
               THEN [links EXCEPT !.call_sip_map[m.call_id] = Append(@, i)]
               ELSE links
        lk2 == IF has_id /\ m.intro_line
               THEN LinkCallLinks(lk1, m.line_no - 1, m.call_id, m.acall)
               ELSE lk1
        ps1 == PhoneSipAdd(lk2.phone_sip_map, m.from_name, i)
        ps2 == PhoneSipAdd(ps1, m.from_num, i)
        ps3 == PhoneSipAdd(ps2, m.to_name, i)
        ps4 == PhoneSipAdd(ps3, m.to_num, i)
        ac1 == IF has_id /\ m.intro_line
               THEN LinkCallAcalls(acalls, m.call_id, m.acall)
               ELSE acalls
        ac2 == IF m.acall # None
               THEN [ac1 EXCEPT ![m.acall].sip_set = @ \cup {i}]
               ELSE ac1
    IN  /\ sip_messages' = [msgs EXCEPT ![i] = m1]
        /\ dialogs' = IF has_id
                      THEN [dialogs EXCEPT ![m.call_id] = d2]
                      ELSE dialogs
        /\ links' = [lk2 EXCEPT !.phone_sip_map = ps4]
        /\ acalls' = ac2

----------------------------------------------------------------------------
(* Initial state: a LogParser just constructed, load_file about to read *)

NoSearch == [pc |-> "idle"]

\* No read_data has run.
NoRead == [pc |-> "idle"]

\* No query has been made.
NoQuery == [pc |-> "idle"]

\* The log is not given as text.
NoText == [pc |-> "idle"]

\* load_file(progress=None)
NoProgress == [pc |-> "idle"]

\* cdr_filename is None.
NoCdr == [pc |-> "idle"]

NoLoadOptions == txt = NoText /\ progress = NoProgress /\ cdr = NoCdr

InitParser ==
    /\ pc = "parsing"
    /\ line_no = -1
    /\ when = None
    /\ acall = None
    /\ sip = 0
    /\ sip_messages = <<>>
    /\ dialogs = [c \in CallIds |-> NoDialog]
    /\ call_timeouts = [c \in CallIds |-> <<>>]
    /\ links = InitLinks
    /\ acalls = [a \in AcallIds |-> NoAcall]
    /\ channels = [n \in ChanNames |-> NoChannel]
    /\ dials = <<>>

----------------------------------------------------------------------------
(* LogParser.load_file: the line loop *)

\* How many lines the log holds at most.
MaxLines == 5

\* How many lines a log of SIP messages alone holds at most (SpecFlow).
MaxFlowLines == 7

\* The loop reads one more line: line_no += 1.
CanRead == pc = "parsing" /\ line_no + 1 < max_lines

\* link_acall on the AstCalls: the AstCall of the line's [C-...] token is
\* created on first sight and collects the line.
LinkAcall(acs, l, ln) ==
    IF l.acall = None THEN acs
    ELSE LET a == IF acs[l.acall].acall_id = None
                  THEN LogAstCall(l.acall, ln, l.when)
                  ELSE acs[l.acall]
         IN  [acs EXCEPT ![l.acall] = [a EXCEPT !.lines = Append(@, ln)]]

\* The active message is offered the line (load_file, `if sip:`): it takes
\* it, or rejects it and is finished, or add_header raises. In each case
\* the loop goes on to the next line (`continue`).
OfferToSip(l) ==
    /\ CanRead
    /\ sip # 0
    /\ line_no' = line_no + 1
    /\ LET r == AddLine(sip_messages[sip], l)
       IN  CASE r.res = "accept" ->
                  /\ sip_messages' = [sip_messages EXCEPT ![sip] = r.m]
                  /\ UNCHANGED <<pc, sip, dialogs, links, acalls>>
             [] r.res = "reject" ->
                  /\ FinishSip(sip_messages, sip)
                  /\ sip' = 0
                  /\ UNCHANGED pc
             [] r.res = "raise" ->
                  /\ sip_messages' = [sip_messages EXCEPT ![sip] = r.m]
                  /\ pc' = "aborted"
                  /\ UNCHANGED <<sip, dialogs, links, acalls>>
    /\ UNCHANGED <<max_lines, when, acall, call_timeouts, channels, dials,
                   fnd,
                   rd, qry, txt, progress, cdr>>

\* A banner line while no message is active creates the message, whose
\* line_no is that of the next line.
BannerLine(l) ==
    /\ CanRead
    /\ sip = 0
    /\ l.kind \in BannerKinds
    /\ line_no' = line_no + 1
    /\ sip_messages' =
          Append(sip_messages,
                 SipMessage(line_no + 2,
                            IF l.kind = "banner_in" THEN "IN" ELSE "OUT",
                            l.x, l.kind # "banner_in" /\ l.y = "NAT", when,
                            acall,
                            FALSE))
    /\ sip' = Len(sip_messages) + 1
    /\ UNCHANGED <<max_lines, pc, when, acall, dialogs, call_timeouts, links,
                   acalls, channels, dials, fnd,
                   rd, qry, txt, progress, cdr>>

\* Any other line that does not begin with '[' while no message is active.
OtherLine(l) ==
    /\ CanRead
    /\ sip = 0
    /\ l.kind \notin BannerKinds \cup TsKinds
    /\ line_no' = line_no + 1
    /\ UNCHANGED <<max_lines, pc, when, acall, sip, sip_messages, dialogs,
                   call_timeouts, links, acalls, channels, dials, fnd,
                   rd, qry, txt, progress, cdr>>

\* A '[' line with no ']' after index 5: line.index raises ValueError.
MalformedTimestamp(l) ==
    /\ CanRead
    /\ sip = 0
    /\ l.kind = "ts_malformed"
    /\ line_no' = line_no + 1
    /\ pc' = "aborted"
    /\ UNCHANGED <<max_lines, when, acall, sip, sip_messages, dialogs,
                   call_timeouts, links, acalls, channels, dials, fnd,
                   rd, qry, txt, progress, cdr>>

\* A timestamped line with none of the module tags.
PlainTimestamp(l) ==
    /\ CanRead
    /\ sip = 0
    /\ l.kind = "ts_plain"
    /\ line_no' = line_no + 1
    /\ when' = l.when
    /\ acall' = l.acall
    /\ acalls' = LinkAcall(acalls, l, line_no + 1)
    /\ UNCHANGED <<max_lines, pc, sip, sip_messages, dialogs,
                   call_timeouts, links, channels, dials, fnd,
                   rd, qry, txt, progress, cdr>>

\* A timestamped chan_sip.c line: parse_chan_sip_c.
\*   cs_transmit    Transmitting (y) to x:
\*   cs_reliably    Reliably Transmitting (y) to x:
\*   cs_retransmit  Retransmitting #z (y) to x:
\*   cs_destroy     Really destroying SIP dialog 'x' / Scheduling
\*                  destruction of SIP dialog 'x' / Hanging up call x
\*   cs_timeout     Retransmission timeout reached on transmission x for ...
ChanSipLine(l) ==
    /\ CanRead
    /\ sip = 0
    /\ l.kind \in {"cs_transmit", "cs_reliably", "cs_retransmit",
                   "cs_destroy", "cs_timeout"}
    /\ line_no' = line_no + 1
    /\ when' = l.when
    /\ acall' = l.acall
    /\ LET ln == line_no + 1
           acs == LinkAcall(acalls, l, ln)
           intro == l.kind \in {"cs_transmit", "cs_reliably",
                                "cs_retransmit"}
           made == intro /\ l.x # None
                         /\ (l.kind = "cs_retransmit" => Truthy(l.z))
           m == [SipMessage(ln + 1, "OUT", l.x, l.y = "NAT", l.when, l.acall,
                            TRUE)
                   EXCEPT !.attempt_no =
                       IF l.kind = "cs_retransmit" THEN l.z ELSE @]
           linked == ~intro /\ Truthy(l.x)
       IN  /\ sip_messages' = IF made THEN Append(sip_messages, m)
                                      ELSE sip_messages
           /\ sip' = IF made THEN Len(sip_messages) + 1 ELSE 0
           /\ links' = IF linked
                       THEN LinkCallLinks(links, ln, l.x, l.acall)
                       ELSE links
           /\ acalls' = IF linked
                        THEN LinkCallAcalls(acs, l.x, l.acall)
                        ELSE acs
           /\ call_timeouts' =
                 IF linked /\ l.kind = "cs_timeout"
                 THEN [call_timeouts EXCEPT ![l.x] = <<ln, l.when>>]
                 ELSE call_timeouts
    /\ UNCHANGED <<max_lines, pc, dialogs, channels, dials, fnd,
                   rd, qry, txt, progress, cdr>>

\* A timestamped pbx.c line: parse_pbx_c.
\*   pbx_fallthrough  -- Auto fallthrough, chan 'z' ...
\*   pbx_exec         -- Executing [x@ctx:n] y("z", "u")   (y not Queue)
\*   pbx_spawn        == Spawn extension (...) exited ... on 'z'
\*                    (x is "exited", None when that word is missing)
\* An Executing line whose channel cannot be extracted makes link_chan
\* return None, and channel.add_extension raises AttributeError.
PbxLine(l) ==
    /\ CanRead
    /\ sip = 0
    /\ l.kind \in {"pbx_fallthrough", "pbx_exec", "pbx_spawn"}
    /\ line_no' = line_no + 1
    /\ when' = l.when
    /\ acall' = l.acall
    /\ LET ln == line_no + 1
           acs == LinkAcall(acalls, l, ln)
           cur == IF l.acall = None THEN 0 ELSE acs[l.acall].current_dial
       IN  CASE l.kind = "pbx_fallthrough" ->
                  /\ channels' = LinkChanChannels(channels, l.z, ln, l.when,
                                                  l.acall)
                  /\ acalls' = LinkChanAcalls(acs, l.z, l.acall)
                  /\ UNCHANGED <<pc, dials, links>>
             [] l.kind = "pbx_exec" /\ ~Truthy(l.z) ->
                  /\ links' = [links EXCEPT
                                  !.phone_channel_map[l.x] = @ \cup {None}]
                  /\ acalls' = acs
                  /\ pc' = "aborted"
                  /\ UNCHANGED <<channels, dials>>
             [] l.kind = "pbx_exec" /\ Truthy(l.z) ->
                  LET chs1 == LinkChanChannels(channels, l.z, ln, l.when,
                                               l.acall)
                      acs1 == LinkChanAcalls(acs, l.z, l.acall)
                      chs2 == [chs1 EXCEPT ![l.z].extensions =
                                 IF \E e \in @ : e.extension = l.x THEN @
                                 ELSE @ \cup {[extension |-> l.x,
                                               line_no |-> ln,
                                               when |-> l.when]}]
                      pcm1 == [links.phone_channel_map EXCEPT
                                  ![l.x] = @ \cup {l.z}]
                      phones == DialPhones(l.u)
                      id == Len(dials) + 1
                  IN  IF l.y = "Dial"
                      THEN /\ dials' = Append(dials,
                                  LogDial(l.z, ln, l.when, l.x, phones))
                           /\ channels' =
                                  [chs2 EXCEPT ![l.z].current_dial = id,
                                               ![l.z].apps = Append(@, id)]
                           /\ links' = [links EXCEPT !.phone_channel_map =
                                  [p \in DOMAIN pcm1 |->
                                      IF \E k \in 1..Len(phones) :
                                            phones[k] = p
                                      THEN pcm1[p] \cup {l.z}
                                      ELSE pcm1[p]]]
                           /\ acalls' = IF l.acall # None
                                        THEN [acs1 EXCEPT
                                                ![l.acall].current_dial = id]
                                        ELSE acs1
                           /\ UNCHANGED pc
                      ELSE /\ channels' = chs2
                           /\ links' = [links EXCEPT
                                           !.phone_channel_map = pcm1]
                           /\ acalls' = acs1
                           /\ UNCHANGED <<pc, dials>>
             [] l.kind = "pbx_spawn" ->
                  IF cur = 0
                  THEN /\ acalls' = acs
                       /\ UNCHANGED <<pc, channels, dials, links>>
                  ELSE /\ dials' =
                              IF l.x = "exited" /\ Truthy(l.z)
                              THEN [dials EXCEPT ![cur] =
                                      DialExtensionExited(@, ln, l.when)]
                              ELSE dials
                       /\ channels' =
                              IF l.x = "exited" /\ Truthy(l.z)
                              THEN ChannelAfterEnd(channels, dials[cur])
                              ELSE channels
                       /\ acalls' = IF l.x = "exited"
                                    THEN [acs EXCEPT
                                            ![l.acall].current_dial = 0]
                                    ELSE acs
                       /\ UNCHANGED <<pc, links>>
    /\ UNCHANGED <<max_lines, sip, sip_messages, dialogs, call_timeouts, fnd,
                   rd, qry, txt, progress, cdr>>

\* A timestamped app_dial.c line: parse_app_dial_c, on the current Dial of
\* the line's AstCall (nothing happens without one).
\*   ad_called    -- Called x
\*   ad_ringing   -- x is ringing
\*   ad_busy      -- x is busy
\*   ad_progress  -- x is making progress passing it to y
\*   ad_answered  -- x answered y
\*   ad_nobody    -- Nobody picked up
\*   ad_everyone  == Everyone is busy ...
AppDialLine(l) ==
    /\ CanRead
    /\ sip = 0
    /\ l.kind \in {"ad_called", "ad_ringing", "ad_busy", "ad_progress",
                   "ad_answered", "ad_nobody", "ad_everyone"}
    /\ line_no' = line_no + 1
    /\ when' = l.when
    /\ acall' = l.acall
    /\ LET ln == line_no + 1
           acs == LinkAcall(acalls, l, ln)
           cur == IF l.acall = None THEN 0 ELSE acs[l.acall].current_dial
           d == dials[cur]
           pick == links.pickup_chans[l.x]
           picked == l.kind = "ad_answered" /\ pick # <<>>
           bridge == FindOkSipFrom(sip_messages, ChannelPhone(l.x),
                                   pick[1], ln)
       IN  IF cur = 0
           THEN /\ acalls' = acs
                /\ UNCHANGED <<channels, dials>>
           ELSE /\ dials' = [dials EXCEPT ![cur] =
                       CASE l.kind = "ad_called" ->
                              DialCalled(d, ln, l.when, l.x)
                         [] l.kind = "ad_ringing" ->
                              DialRinging(d, ln, l.when, l.x)
                         [] l.kind = "ad_busy" ->
                              DialBusy(d, ln, l.when, l.x)
                         [] l.kind = "ad_progress" ->
                              DialProgress(d, ln, l.when, l.y, l.x)
                         [] l.kind = "ad_answered" ->
                              DialAnswered(
                                  IF picked
                                  THEN DialPickup(d, pick[1], pick[2],
                                                  pick[3])
                                  ELSE d,
                                  ln, l.when, l.y, l.x)
                         [] l.kind = "ad_nobody" ->
                              DialNobodyPickedUp(d, ln, l.when)
                         [] l.kind = "ad_everyone" -> DialFinish(d)]
                /\ channels' =
                       IF l.kind \in {"ad_nobody", "ad_everyone"}
                       THEN ChannelAfterEnd(channels, d)
                       ELSE IF picked
                       THEN [channels EXCEPT
                               ![d.channel].lines = Append(@, pick[1]),
                               ![d.channel].sip_set =
                                   IF bridge # 0 THEN @ \cup {bridge}
                                   ELSE @]
                       ELSE channels
                /\ acalls' = IF l.kind = "ad_nobody"
                             THEN [acs EXCEPT ![l.acall].current_dial = 0]
                             ELSE acs
    /\ UNCHANGED <<max_lines, pc, sip, sip_messages, dialogs, call_timeouts,
                   links, fnd,
                   rd, qry, txt, progress, cdr>>

\* A timestamped features.c line: parse_features_c.
\*   ft_pickup    pickup x attempt by y
FeaturesLine(l) ==
    /\ CanRead
    /\ sip = 0
    /\ l.kind = "ft_pickup"
    /\ line_no' = line_no + 1
    /\ when' = l.when
    /\ acall' = l.acall
    /\ acalls' = LinkAcall(acalls, l, line_no + 1)
    /\ links' = [links EXCEPT !.pickup_chans[l.y] =
                                  <<line_no + 1, l.when, l.x>>]
    /\ UNCHANGED <<max_lines, pc, sip, sip_messages, dialogs, call_timeouts,
                   channels, dials, fnd,
                   rd, qry, txt, progress, cdr>>

\* A timestamped manager.c line: parse_manager_c.
\*   mgr_hangup   ... hanging up channel: x
ManagerLine(l) ==
    /\ CanRead
    /\ sip = 0
    /\ l.kind = "mgr_hangup"
    /\ line_no' = line_no + 1
    /\ when' = l.when
    /\ acall' = l.acall
    /\ acalls' = LinkAcall(acalls, l, line_no + 1)
    /\ LET ln == line_no + 1
           cur == channels[l.x].current_dial
           chs1 == [channels EXCEPT ![l.x].lines = Append(@, ln)]
       IN  IF channels[l.x].name = None
           THEN UNCHANGED <<channels, dials>>
           ELSE IF cur = 0
           THEN /\ channels' = chs1
                /\ UNCHANGED dials
           ELSE /\ dials' = [dials EXCEPT ![cur] =
                                DialManagerHangup(@, ln, l.when, l.x)]
                /\ channels' = IF l.x = dials[cur].channel
                               THEN ChannelAfterEnd(chs1, dials[cur])
                               ELSE chs1
    /\ UNCHANGED <<max_lines, pc, sip, sip_messages, dialogs, call_timeouts,
                   links, fnd,
                   rd, qry, txt, progress, cdr>>

\* The input is exhausted: a pending message is finished and load_file
\* returns.
EndOfFile ==
    /\ pc = "parsing"
    /\ pc' = "done"
    /\ IF sip # 0
       THEN FinishSip(sip_messages, sip)
       ELSE UNCHANGED <<sip_messages, dialogs, links, acalls>>
    /\ UNCHANGED <<max_lines, line_no, when, acall, sip, call_timeouts,
                   channels, dials, fnd,
                   rd, qry, txt, progress, cdr>>

\* The lines of a log of SIP traffic.
SipLines ==
    {SipLine("blank", None, None, None),
     SipLine("separator", None, None, None),
     SipLine("banner_in", "10.0.0.1:5060", "no NAT", None),
     SipLine("banner_out", "10.0.0.1:5060", "no NAT", None),
     SipLine("status", "100 Trying", None, None),
     SipLine("request", "INVITE", "10.0.0.1", None),
     SipLine("token", None, None, None),
     SipLine("Call-ID", "X", None, None),
     SipLine("Call-ID", "", None, None),
     SipLine("Via", "10.0.0.2:5060", None, None),
     SipLine("To", None, "200", "h"),
     SipLine("CSeq", "1 INVITE", None, None),
     Line("ts_malformed", None, None, None, None, None, <<>>),
     Line("ts_plain", None, "10:00:00", None, None, None, <<>>),
     Line("cs_transmit", None, "10:00:00", "10.0.0.1:5060", "no NAT", None,
          <<>>),
     Line("cs_timeout", None, "10:00:01", "X", None, None, <<>>)}

Init == InitParser /\ max_lines = MaxLines /\ fnd = NoSearch
    /\ rd = NoRead /\ qry = NoQuery /\ NoLoadOptions

Next ==
    \/ \E l \in SipLines :
          \/ OfferToSip(l)
          \/ BannerLine(l)
          \/ OtherLine(l)
          \/ MalformedTimestamp(l)
          \/ PlainTimestamp(l)
          \/ ChanSipLine(l)
    \/ EndOfFile

Spec == Init /\ [][Next]_vars

\* The lines of a log that holds SIP messages framed by banners only.
FlowLines ==
    {SipLine("separator", None, None, None),
     SipLine("banner_in", "10.0.0.1:5060", "no NAT", None),
     SipLine("banner_out", "10.0.0.1:5060", "no NAT", None),
     SipLine("status", "100 Trying", None, None),
     SipLine("request", "INVITE", "10.0.0.1", None),
     SipLine("Call-ID", "X", None, None),
     SipLine("Call-ID", "Y", None, None),
     SipLine("Call-ID", "", None, None),
     SipLine("Via", "10.0.0.2:5060", None, None),
     SipLine("To", None, "200", "h")}

InitFlow == InitParser /\ max_lines = MaxFlowLines /\ fnd = NoSearch
    /\ rd = NoRead /\ qry = NoQuery /\ NoLoadOptions

NextFlow ==
    \/ \E l \in FlowLines :
          \/ OfferToSip(l)
          \/ BannerLine(l)
          \/ OtherLine(l)
    \/ EndOfFile

SpecFlow == InitFlow /\ [][NextFlow]_vars

\* How many lines a log of dialplan events holds at most (SpecDial).
MaxDialLines == 4

DialLine(kind, ac, x, y, z, u) == Line(kind, ac, "10:00:00", x, y, z, u)

\* The lines of a log of dialplan events: two AstCalls A and B run Dial on
\* channel SIP/a-1.
DialLines ==
    {DialLine("pbx_exec", ac, "100", "Dial", "SIP/a-1",
              <<"SIP/b", "&", "SIP/c", ",", "20">>) : ac \in AcallIds}
    \cup {DialLine("pbx_exec", "A", "100", "Dial", None, <<>>)}
    \cup {DialLine("pbx_spawn", ac, "exited", None, "SIP/a-1", <<>>) :
            ac \in AcallIds}
    \cup {DialLine("ad_everyone", ac, None, None, None, <<>>) :
            ac \in AcallIds}
    \cup {DialLine("ad_nobody", ac, None, None, None, <<>>) :
            ac \in AcallIds}
    \cup {DialLine("ad_ringing", "A", "SIP/b-1", None, None, <<>>),
          DialLine("ad_busy", "A", "SIP/b-1", None, None, <<>>),
          DialLine("ad_progress", "A", "SIP/b-1", "SIP/a-1", None, <<>>),
          DialLine("ad_progress", "A", "SIP/a-1", "SIP/b-1", None, <<>>),
          DialLine("ad_answered", "A", "SIP/c-1", "SIP/a-1", None, <<>>),
          DialLine("ad_answered", "A", "SIP/c-1", "SIP/b-1", None, <<>>),
          DialLine("ft_pickup", None, "SIP/b-1", "SIP/c-1", None, <<>>),
          DialLine("mgr_hangup", None, "SIP/a-1", None, None, <<>>)}

InitDial == InitParser /\ max_lines = MaxDialLines /\ fnd = NoSearch
    /\ rd = NoRead /\ qry = NoQuery /\ NoLoadOptions

NextDial ==
    \/ \E l \in DialLines :
          \/ PbxLine(l)
          \/ AppDialLine(l)
          \/ FeaturesLine(l)
          \/ ManagerLine(l)
    \/ EndOfFile

SpecDial == InitDial /\ [][NextDial]_vars

----------------------------------------------------------------------------
(* The dialog state machine, driven message by message *)

\* How many messages SpecDialog offers to the dialog.
MaxSips == 5

\* What add_header can leave in an assembled message: a request (with the
\* Via address finalize_sip makes its sender), a response, or neither.
DialogSips ==
    {[request |-> r, status |-> None, via_addr |-> "10.0.0.2:5060"] :
        r \in {"INVITE", "ACK", "BYE", "OPTIONS"}}
    \cup {[request |-> "BYE", status |-> None, via_addr |-> "10.0.0.1:5060"]}
    \cup {[request |-> None, status |-> st, via_addr |-> None] :
        st \in {"100 Trying", "200 OK", "486 Busy Here", "", None}}

AssembledSip(ln, f) ==
    [SipMessage(ln, "IN", None, FALSE, None, None, FALSE) EXCEPT
        !.request = f.request, !.status = f.status, !.via_addr = f.via_addr,
        !.call_id = "X"]

\* One message of call X goes through LogParser.sip and finish_sip.
SipArrives(f) ==
    /\ Len(sip_messages) < MaxSips
    /\ FinishSip(Append(sip_messages, AssembledSip(line_no + 2, f)),
                 Len(sip_messages) + 1)
    /\ line_no' = line_no + 2
    /\ UNCHANGED <<max_lines, pc, when, acall, sip, call_timeouts, channels,
                   dials, fnd,
                   rd, qry, txt, progress, cdr>>

InitDialog == InitParser /\ max_lines = 0 /\ fnd = NoSearch
    /\ rd = NoRead /\ qry = NoQuery /\ NoLoadOptions

NextDialog == \E f \in DialogSips : SipArrives(f)

SpecDialog == InitDialog /\ [][NextDialog]_vars

----------------------------------------------------------------------------
(* Claims about SipDialog, checked under SpecDialog *)

HasDialog(c) == dialogs[c].call_id # None

\* The k-th message added to the dialog of call c.
Added(c, k) == sip_messages[dialogs[c].sip_list[k]]

NAdded(c) == Len(dialogs[c].sip_list)

\* Whether is_establishing was true when the k-th message was added, told
\* from the messages added before it: the latest INVITE or ACK among them is
\* an INVITE (before any, the constructor's value).
EstablishingAt(c, k) ==
    LET prior == {j \in 1..(k - 1) : Added(c, j).request \in {"INVITE", "ACK"}}
    IN  IF prior = {}
        THEN dialogs[c].request = "INVITE"
        ELSE Added(c, Max(prior)).request = "INVITE"

GoodStatus(st) == StartsWith(st, "1") \/ StartsWith(st, "2")

\* C1 as stated: in a dialog that began with INVITE, was_established holds
\* iff some 1xx/2xx response was added and an ACK was added after it while
\* is_establishing was true.
C1_AsStated ==
    \A c \in CallIds :
        (HasDialog(c) /\ Added(c, 1).request = "INVITE") =>
            (dialogs[c].was_established <=>
                \E j \in 1..NAdded(c), k \in 1..NAdded(c) :
                    /\ j < k
                    /\ GoodStatus(Added(c, j).status)
                    /\ Added(c, k).request = "ACK"
                    /\ EstablishingAt(c, k))

\* C1 amended: in a dialog that began with INVITE, was_established holds iff
\* an ACK was added while is_establishing was true and the latest response
\* added before that ACK while is_establishing was true had a status
\* starting with 1 or 2.
C1_MostRecentStatus ==
    \A c \in CallIds :
        (HasDialog(c) /\ Added(c, 1).request = "INVITE") =>
            (dialogs[c].was_established <=>
                \E k \in 1..NAdded(c) :
                    /\ Added(c, k).request = "ACK"
                    /\ EstablishingAt(c, k)
                    /\ LET resp == {j \in 1..(k - 1) :
                                      /\ Truthy(Added(c, j).status)
                                      /\ EstablishingAt(c, j)}
                       IN  /\ resp # {}
                           /\ GoodStatus(Added(c, Max(resp)).status))

\* A dialog begun by INVITE that was established although a 4xx response
\* had been added before the establishing ACK.
C1_Witness ==
    \E c \in CallIds :
        /\ HasDialog(c)
        /\ Added(c, 1).request = "INVITE"
        /\ dialogs[c].was_established
        /\ \E j \in 1..NAdded(c) : StartsWith(Added(c, j).status, "4")

\* C2: in every dialog, had_bye implies was_established.
C2_ByeImpliesEstablished ==
    \A c \in CallIds :
        HasDialog(c) => (dialogs[c].had_bye => dialogs[c].was_established)

\* A dialog whose BYE was recorded.
C2_Witness ==
    \E c \in CallIds :
        /\ HasDialog(c)
        /\ dialogs[c].had_bye
        /\ dialogs[c].bye_addr = "10.0.0.1:5060"

\* The message this step adds to the dialog of call c, as finish_sip leaves
\* it; Arrives(c) tells whether the step adds one.
Arrives(c) == HasDialog(c)' /\ Len(sip_messages') = Len(sip_messages) + 1
    /\ sip_messages'[Len(sip_messages')].call_id = c

Arrived == sip_messages'[Len(sip_messages')]

IsResponse(m) == Truthy(m.status)

\* C27: every INVITE request added to a dialog leaves is_establishing true,
\* also after an earlier ACK; a dialog of a single INVITE is establishing
\* and was not established.
C27_InviteEstablishes ==
    [][\A c \in CallIds :
          /\ Arrives(c) /\ Arrived.request = "INVITE" =>
                dialogs'[c].is_establishing
          /\ HasDialog(c)' /\ NAdded(c)' = 1
             /\ Added(c, 1)'.request = "INVITE" =>
                dialogs'[c].is_establishing /\ ~dialogs'[c].was_established]_vars

\* A dialog that is establishing again: its latest message is an INVITE
\* added after an ACK.
C27_Witness ==
    \E c \in CallIds :
        /\ HasDialog(c)
        /\ NAdded(c) > 2
        /\ Added(c, NAdded(c)).request = "INVITE"
        /\ \E k \in 1..(NAdded(c) - 1) :
              Added(c, k).request = "ACK" /\ EstablishingAt(c, k)
        /\ dialogs[c].is_establishing

\* C28: while a dialog is establishing, a response sets dialog_status to
\* its status and leaves is_establishing; an ACK sets dialog_ack, ends
\* is_establishing and sets was_established when the dialog_status of the
\* moment starts with 1 or 2, leaving it otherwise. An ACK while not
\* establishing changes none of the three.
C28_ResponsesAndAck ==
    [][\A c \in CallIds :
          HasDialog(c) /\ Arrives(c) =>
            /\ dialogs[c].is_establishing /\ IsResponse(Arrived) =>
                  /\ dialogs'[c].dialog_status = Arrived.status
                  /\ dialogs'[c].is_establishing
            /\ dialogs[c].is_establishing /\ Arrived.request = "ACK" =>
                  /\ dialogs'[c].dialog_ack = "ACK"
                  /\ ~dialogs'[c].is_establishing
                  /\ dialogs'[c].was_established =
                        (dialogs[c].was_established
                            \/ GoodStatus(dialogs[c].dialog_status))
            /\ ~dialogs[c].is_establishing /\ Arrived.request = "ACK" =>
                  /\ dialogs'[c].dialog_ack = dialogs[c].dialog_ack
                  /\ dialogs'[c].is_establishing = dialogs[c].is_establishing
                  /\ dialogs'[c].was_established = dialogs[c].was_established]_vars

\* A dialog whose ACK came after a 4xx response and did not establish it,
\* followed by an ACK that changed nothing.
C28_Witness ==
    \E c \in CallIds :
        /\ HasDialog(c)
        /\ NAdded(c) > 3
        /\ Added(c, NAdded(c)).request = "ACK"
        /\ Added(c, NAdded(c) - 1).request = "ACK"
        /\ StartsWith(dialogs[c].dialog_status, "4")
        /\ dialogs[c].dialog_ack = "ACK"
        /\ ~dialogs[c].is_establishing
        /\ ~dialogs[c].was_established

\* C29: in an established dialog that is not establishing and had no BYE,
\* a BYE request sets had_bye and makes its sender bye_addr; once had_bye
\* holds, had_bye and bye_addr never change.
C29_FirstByeKept ==
    [][\A c \in CallIds :
          HasDialog(c) =>
            /\ /\ Arrives(c) /\ Arrived.request = "BYE"
               /\ dialogs[c].was_established
               /\ ~dialogs[c].is_establishing
               /\ ~dialogs[c].had_bye
               => /\ dialogs'[c].had_bye
                  /\ dialogs'[c].bye_addr = Arrived.sender_addr
                  /\ Arrived.sender_addr = Arrived.via_addr
            /\ dialogs[c].had_bye =>
                  /\ dialogs'[c].had_bye
                  /\ dialogs'[c].bye_addr = dialogs[c].bye_addr]_vars

\* A dialog that kept the sender of its first BYE when a BYE of another
\* sender followed.
C29_Witness ==
    \E c \in CallIds :
        /\ HasDialog(c)
        /\ dialogs[c].had_bye
        /\ \E j, k \in 1..NAdded(c) :
              /\ j < k
              /\ Added(c, j).request = "BYE"
              /\ Added(c, k).request = "BYE"
              /\ Added(c, j).sender_addr = dialogs[c].bye_addr
              /\ Added(c, k).sender_addr # dialogs[c].bye_addr

\* C30: in a dialog whose first message is not an INVITE request, every
\* response added sets dialog_status to its status.
C30_AsStated ==
    [][\A c \in CallIds :
          /\ Arrives(c)
          /\ Added(c, 1)'.request # "INVITE"
          /\ IsResponse(Arrived)
          => dialogs'[c].dialog_status = Arrived.status]_vars

----------------------------------------------------------------------------
(* find_file_position: the binary search for a timestamp in a log file *)

\* A file is a sequence of bytes, and positions in it count from 0 as in
\* the source. A timestamp is one digit, the text between '[' and ']'.
Digits == <<"1", "2", "3", "4", "5", "6", "7", "8", "9">>

MaxFileLines == 3
MaxT == 2

\* f.read(64000)
Window == 64000

\* for cnt in range(40)
MaxProbes == 40

NoPos == -1

\* data[i]
ByteAt(data, i) == data[i + 1]

\* data[i:j]
Slice(data, i, j) == SubSeq(data, i + 1, j)

\* data.find(c, from): the first position at or after from that holds c,
\* -1 when there is none.
Find(data, c, from) ==
    LET hits == {i \in from..(Len(data) - 1) : ByteAt(data, i) = c}
    IN  IF hits = {} THEN -1 ELSE Min(hits)

\* parse_when: the timestamp a text stands for, 0 (None) for a text in none
\* of TIMESTAMP_FORMATS.
parse_when(w) ==
    IF Len(w) = 1 /\ \E k \in 1..Len(Digits) : Digits[k] = w[1]
    THEN CHOOSE k \in 1..Len(Digits) : Digits[k] = w[1]
    ELSE 0

\* get_line: the line that starts at data_pos and the position after it.
\* A line without a newline is given as empty. data[eol - 1] with eol = 0
\* is the last byte of data.
get_line(data, data_pos, data_len) ==
    LET eol == Find(data, "\n", data_pos)
    IN  IF eol = -1
        THEN [line |-> <<>>, data_pos |-> data_len]
        ELSE IF ByteAt(data, IF eol = 0 THEN Len(data) - 1 ELSE eol - 1)
                    = "\r"
        THEN [line |-> Slice(data, data_pos, eol - 1), data_pos |-> eol + 1]
        ELSE [line |-> Slice(data, data_pos, eol), data_pos |-> eol + 1]

\* The loop of read_when from data_pos on: the text between '[' and ']' of
\* the first line that starts with '[' and has a ']', and where the line
\* starts; w = <<>> and pos = NoPos for (None, None).
RECURSIVE ReadWhenFrom(_, _)
ReadWhenFrom(data, data_pos) ==
    IF data_pos >= Len(data)
    THEN [w |-> <<>>, pos |-> NoPos]
    ELSE LET g == get_line(data, data_pos, Len(data))
             idx == Find(g.line, "]", 0)
         IN  IF g.line # <<>> /\ g.line[1] = "[" /\ idx > 0
             THEN [w |-> Slice(g.line, 1, idx), pos |-> data_pos]
             ELSE ReadWhenFrom(data, g.data_pos)

read_when(data) == ReadWhenFrom(data, 0)

\* The lines a log is made of: a timestamped line, short or with a thread
\* id in brackets after the level, and a line without a timestamp, as the
\* lines of a SIP message are.
TsLine(t) == <<"[", Digits[t], "]", "\n">>
TsLineLong(t) == <<"[", Digits[t], "]", "V", "[", "p", "]", "\n">>
PlainLine == <<"x", "\n">>
PlainLineLong == <<"x", "x", "x", "x", "x", "\n">>

\* A file line: t = 0 for a line without a timestamp.
FileLineShapes == [t : 0..MaxT, long : BOOLEAN]

FileLineBytes(l) ==
    IF l.t = 0 THEN (IF l.long THEN PlainLineLong ELSE PlainLine)
    ELSE (IF l.long THEN TsLineLong(l.t) ELSE TsLine(l.t))

RECURSIVE FileBytes(_)
FileBytes(ls) ==
    IF ls = <<>> THEN <<>> ELSE FileLineBytes(Head(ls)) \o FileBytes(Tail(ls))

\* The timestamps of the file's timestamped lines never decrease.
NonDecreasing(ls) ==
    \A i \in 1..Len(ls), j \in 1..Len(ls) :
        (i < j /\ ls[i].t # 0 /\ ls[j].t # 0) => ls[i].t <= ls[j].t

LogFiles ==
    {FileBytes(ls) : ls \in {x \in UNION {[1..n -> FileLineShapes] :
                                             n \in 0..MaxFileLines} :
                                NonDecreasing(x)}}

\* The texts asked for: the timestamps, and one that is in no format.
Whens == {<<Digits[t]>> : t \in 1..MaxT} \cup {<<"p">>}

\* find_file_position up to its loop: ts, size, file_pos, a, b, good_pos.
\* A text that is no timestamp returns None at once.
InitFind ==
    /\ InitParser
    /\ max_lines = 0
    /\ rd = NoRead /\ qry = NoQuery /\ NoLoadOptions
    /\ \E file \in LogFiles, w \in Whens, direction \in {"after", "before"} :
          fnd = [pc |-> IF parse_when(w) = 0 THEN "returned" ELSE "searching",
                 file |-> file, ts |-> parse_when(w),
                 direction |-> direction,
                 file_pos |-> 0, a |-> 0, b |-> Len(file),
                 good_pos |-> NoPos, cnt |-> 0]

\* Python 2: a + (b - a) / 2 on integers
NewFilePos(a, b) == a + ((b - a) \div 2)

\* One turn of the loop, for a probe that reads a timestamp.
Probe ==
    /\ fnd.pc = "searching"
    /\ fnd.cnt < MaxProbes
    /\ LET new_file_pos == NewFilePos(fnd.a, fnd.b)
           data == Slice(fnd.file, new_file_pos,
                         Min({Len(fnd.file), new_file_pos + Window}))
           r == read_when(data)
           t == parse_when(r.w)
           good == IF fnd.direction = "after" THEN t >= fnd.ts
                   ELSE t <= fnd.ts
           a1 == IF fnd.direction = "after"
                 THEN (IF good THEN fnd.a ELSE new_file_pos)
                 ELSE (IF good THEN new_file_pos ELSE fnd.a)
           b1 == IF fnd.direction = "after"
                 THEN (IF good THEN new_file_pos ELSE fnd.b)
                 ELSE (IF good THEN fnd.b ELSE new_file_pos)
       IN  /\ new_file_pos # fnd.file_pos
           /\ r.w # <<>>
           /\ t # 0
           /\ fnd' = [fnd EXCEPT
                        !.file_pos = new_file_pos,
                        !.good_pos = IF good THEN new_file_pos + r.pos ELSE @,
                        !.a = a1, !.b = b1,
                        !.cnt = @ + 1,
                        !.pc = IF b1 = a1 THEN "returned" ELSE "searching"]
    /\ UNCHANGED <<max_lines, pc, line_no, when, acall, sip, sip_messages,
                   dialogs, call_timeouts, links, acalls, channels, dials,
                   rd, qry, txt, progress, cdr>>

\* The loop ends: the probe is where the last one was, it reads no
\* timestamp, or the turns are used up. good_pos is returned.
ProbeEnds ==
    /\ fnd.pc = "searching"
    /\ LET new_file_pos == NewFilePos(fnd.a, fnd.b)
           data == Slice(fnd.file, new_file_pos,
                         Min({Len(fnd.file), new_file_pos + Window}))
           r == read_when(data)
       IN  /\ \/ fnd.cnt >= MaxProbes
              \/ new_file_pos = fnd.file_pos
              \/ r.w = <<>>
              \/ parse_when(r.w) = 0
           /\ fnd' = [fnd EXCEPT
                        !.file_pos = IF fnd.cnt >= MaxProbes THEN @
                                     ELSE new_file_pos,
                        !.pc = "returned"]
    /\ UNCHANGED <<max_lines, pc, line_no, when, acall, sip, sip_messages,
                   dialogs, call_timeouts, links, acalls, channels, dials,
                   rd, qry, txt, progress, cdr>>

NextFind == Probe \/ ProbeEnds

SpecFind == InitFind /\ [][NextFind]_vars

----------------------------------------------------------------------------
(* LogParser.read_data: the window of the file that is parsed *)

\* Here a file is a sequence of lines [t, len]: a line of len bytes, the
\* last of them the newline, that starts with '[t]' when t # 0 and holds
\* no other '['. Offsets in the file are byte offsets as in the source.
MaxReadLines == 3

\* f.seek(-32000, os.SEEK_END); f.read(32000)
TailWindow == 32000

\* num_bytes = finish_pos - start_pos + 16000
SpanSlack == 16000

\* The lengths of a line: a log line, and a stretch of SIP traffic.
LineLens == {100, 40000}

\* The times of the file's lines: every time minus the tail minutes is a
\* time that has a text.
ReadTimes == {2, 3}

SizedLines == [t : {0} \cup ReadTimes, len : LineLens]

SizedFiles ==
    {ls \in UNION {[1..n -> SizedLines] : n \in 0..MaxReadLines} :
        NonDecreasing(ls)}

RECURSIVE FileSize(_)
FileSize(ls) == IF ls = <<>> THEN 0 ELSE Head(ls).len + FileSize(Tail(ls))

\* The offset at which line i of the file starts.
LineStart(ls, i) == FileSize(SubSeq(ls, 1, i - 1))

\* read_when on f.read(n) at offset p: the first line that lies in the
\* data with its newline and starts with '[', and where it starts in the
\* data; w = 0 and pos = NoPos for (None, None). The rest of a line the
\* data starts within does not start with '['.
SizedReadWhen(ls, p, n) ==
    LET e == Min({FileSize(ls), p + n})
        found == {i \in 1..Len(ls) :
                     /\ ls[i].t # 0
                     /\ LineStart(ls, i) >= p
                     /\ LineStart(ls, i) + ls[i].len <= e}
    IN  IF found = {} THEN [w |-> 0, pos |-> NoPos]
        ELSE [w |-> ls[Min(found)].t, pos |-> LineStart(ls, Min(found)) - p]

\* str(datetime): the text of a time.
StrWhen(t) == <<Digits[t]>>

\* The loop of find_file_position on such a file; the value returned.
RECURSIVE SizedFindLoop(_, _, _, _, _, _, _, _)
SizedFindLoop(ls, ts, direction, file_pos, a, b, good_pos, cnt) ==
    LET new_file_pos == NewFilePos(a, b)
        r == SizedReadWhen(ls, new_file_pos, Window)
        good == IF direction = "after" THEN r.w >= ts ELSE r.w <= ts
        a1 == IF direction = "after"
              THEN (IF good THEN a ELSE new_file_pos)
              ELSE (IF good THEN new_file_pos ELSE a)
        b1 == IF direction = "after"
              THEN (IF good THEN new_file_pos ELSE b)
              ELSE (IF good THEN b ELSE new_file_pos)
        good1 == IF good THEN new_file_pos + r.pos ELSE good_pos
    IN  IF cnt >= MaxProbes \/ new_file_pos = file_pos \/ r.w = 0
        THEN good_pos
        ELSE IF b1 = a1 THEN good1
        ELSE SizedFindLoop(ls, ts, direction, new_file_pos, a1, b1, good1,
                           cnt + 1)

\* find_file_position(f, when, direction)
SizedFind(ls, w, direction) ==
    IF parse_when(w) = 0 THEN NoPos
    ELSE SizedFindLoop(ls, parse_when(w), direction, 0, 0, FileSize(ls),
                       NoPos, 0)

\* LogParser.__init__: min(max(use_memory_pct or 5, 5), 75); 0 is None.
UseMemoryPct(p) == Min({Max({IF p = 0 THEN 5 ELSE p, 5}), 75})

\* What the caller asks for. The texts of from_when and to_when are <<>>
\* for None, tail_minutes and mem_size are 0 for None.
TailMinutes == {0, 1}
WhenArgs == {<<>>} \cup {StrWhen(t) : t \in ReadTimes}
PctArgs == {0, 3, 80}
MemSizes == {0, 1000000}

InitRead ==
    /\ InitParser
    /\ max_lines = 0
    /\ fnd = NoSearch /\ qry = NoQuery /\ NoLoadOptions
    /\ \E ls \in SizedFiles, tm \in TailMinutes, fw \in WhenArgs,
          tw \in WhenArgs, p \in PctArgs, mem \in MemSizes :
          rd = [pc |-> "tail", file |-> ls, tail_minutes |-> tm,
                from_when |-> fw, to_when |-> tw,
                pct_arg |-> p, use_memory_pct |-> UseMemoryPct(p),
                mem_size |-> mem,
                start_pos |-> 0, num_bytes |-> -1, size |-> 0,
                error |-> None, data |-> <<>>]

ReadFrame ==
    UNCHANGED <<max_lines, pc, line_no, when, acall, sip, sip_messages,
                dialogs, call_timeouts, links, acalls, channels, dials, fnd,
                qry, txt, progress, cdr>>

\* if self.tail_minutes: the seek fails with IOError on a file shorter
\* than the tail; a timestamp read from the tail sets from_when and clears
\* to_when.
ReadTail ==
    /\ rd.pc = "tail"
    /\ LET size == FileSize(rd.file)
           r == SizedReadWhen(rd.file, size - TailWindow, TailWindow)
       IN  IF rd.tail_minutes = 0
           THEN rd' = [rd EXCEPT !.pc = "from"]
           ELSE IF size < TailWindow
           THEN rd' = [rd EXCEPT !.pc = "raised", !.error = "IOError"]
           ELSE IF r.w = 0
           THEN rd' = [rd EXCEPT !.pc = "from"]
           ELSE rd' = [rd EXCEPT !.pc = "from",
                                 !.from_when = StrWhen(parse_when(<<Digits[r.w]>>)
                                                       - rd.tail_minutes),
                                 !.to_when = <<>>]
    /\ ReadFrame

\* if self.from_when: start_pos is searched for, and must be found.
FindStart ==
    /\ rd.pc = "from"
    /\ LET start_pos == SizedFind(rd.file, rd.from_when, "after")
       IN  IF rd.from_when = <<>>
           THEN rd' = [rd EXCEPT !.pc = "to"]
           ELSE IF start_pos = NoPos
           THEN rd' = [rd EXCEPT !.pc = "raised", !.error = "LogParserError"]
           ELSE rd' = [rd EXCEPT !.pc = "to", !.start_pos = start_pos]
    /\ ReadFrame

\* if self.to_when: finish_pos is searched for, and must be found; the
\* number of bytes must not be negative.
FindFinish ==
    /\ rd.pc = "to"
    /\ LET finish_pos == SizedFind(rd.file, rd.to_when, "before")
           num_bytes == finish_pos - rd.start_pos + SpanSlack
       IN  IF rd.to_when = <<>>
           THEN rd' = [rd EXCEPT !.pc = "memory"]
           ELSE IF finish_pos = NoPos \/ num_bytes < 0
           THEN rd' = [rd EXCEPT !.pc = "raised", !.error = "LogParserError"]
           ELSE rd' = [rd EXCEPT !.pc = "memory", !.num_bytes = num_bytes]
    /\ ReadFrame

\* Mutant of TooMuchData: the size itself is compared, not twice the size.
TooMuchDataOnce(size, pct, mem_size) ==
    mem_size # 0 /\ size > (pct * mem_size) \div 100

\* mem_size and size * 2 > self.use_memory_pct * mem_size / 100
TooMuchData(size, pct, mem_size) ==
    mem_size # 0 /\ size * 2 > (pct * mem_size) \div 100

\* The size of what will be read is held against the memory of the system.
CheckMemory ==
    /\ rd.pc = "memory"
    /\ LET size == IF rd.num_bytes = -1 THEN FileSize(rd.file)
                   ELSE rd.num_bytes
       IN  IF TooMuchData(size, rd.use_memory_pct, rd.mem_size)
           THEN rd' = [rd EXCEPT !.pc = "raised", !.size = size,
                                 !.error = "LogParserError"]
           ELSE rd' = [rd EXCEPT !.pc = "read", !.size = size]
    /\ ReadFrame

\* f.seek(start_pos); f.read(num_bytes): the bytes from start_pos, all of
\* them for -1, as <<first offset, offset after the last>>.
SpanRead(ls, start_pos, num_bytes) ==
    <<start_pos,
      IF num_bytes = -1 THEN FileSize(ls)
      ELSE Min({FileSize(ls), start_pos + num_bytes})>>

ReadSpan ==
    /\ rd.pc = "read"
    /\ rd' = [rd EXCEPT !.pc = "returned",
                        !.data = SpanRead(rd.file, rd.start_pos, rd.num_bytes)]
    /\ ReadFrame

NextRead == ReadTail \/ FindStart \/ FindFinish \/ CheckMemory \/ ReadSpan

SpecRead == InitRead /\ [][NextRead]_vars

----------------------------------------------------------------------------
(* LogParser.get_linked_objects: the groups of objects linked to a reference *)

\* The names of AstCalls and channels, in the order used to list a set of
\* them one way or the other.
NameOrder ==
    <<"A1", "A2", "A3", "A4", "A5", "A6", "A7", "A8", "A9", "A", "B",
      "SIP/a-1", "SIP/b-1", "SIP/c-1">>

NameRank(n) == CHOOSE k \in 1..Len(NameOrder) : NameOrder[k] = n

\* sorted(): a set of integers in ascending order.
RECURSIVE Ascending(_)
Ascending(S) ==
    IF S = {} THEN <<>> ELSE <<Min(S)>> \o Ascending(S \ {Min(S)})

Reverse(s) == [k \in 1..Len(s) |-> s[Len(s) + 1 - k]]

\* A set is iterated in an order the program does not choose: ord tells
\* which of two orders it is.
IterInts(S, ord) ==
    IF ord = "asc" THEN Ascending(S) ELSE Reverse(Ascending(S))

IterNames(S, ord) ==
    LET r == IterInts({NameRank(n) : n \in S}, ord)
    IN  [k \in 1..Len(r) |-> NameOrder[r[k]]]

\* The parsed graph a query reads, but for the AstCalls.
Graph ==
    [sips |-> sip_messages, dialogs |-> dialogs, links |-> links,
     channels |-> channels]

\* list.sort(key=lambda s: s.line_no) on a set of messages.
SipsByLine(g, S) ==
    LET r == Ascending({g.sips[i].line_no : i \in S})
    IN  [k \in 1..Len(r) |-> CHOOSE i \in S : g.sips[i].line_no = r[k]]

\* include_dialog_sips: the messages and all messages of their dialogs.
IncludeDialogSips(g, S) ==
    S \cup UNION {{g.dialogs[g.sips[i].dialog].sip_list[k] :
                     k \in 1..Len(g.dialogs[g.sips[i].dialog].sip_list)} :
                  i \in {j \in S : g.sips[j].dialog # None}}

\* LogGroup()
LogGroup == [overview |-> <<>>, lines |-> <<>>]

\* An entry of a group's overview: (line_no, kind, obj), obj a message
\* (sip) or a named AstCall or channel (name).
Entry(ln, kind, i, name) ==
    [line_no |-> ln, kind |-> kind, sip |-> i, name |-> name]

\* Mutant of SetLine: every insert replaces.
SetLineAlways(lines, ln, style) == (ln :> style) @@ lines

\* LogGroup.line on a map of lines: a 'verbose' line does not replace one
\* that is there.
SetLine(lines, ln, style) ==
    IF style = "verbose" /\ ln \in DOMAIN lines THEN lines
    ELSE (ln :> style) @@ lines

\* groups[-1].line(line_no, style, line)
GLine(st, ln, style) ==
    [st EXCEPT !.groups[Len(st.groups)].lines = SetLine(@, ln, style)]

RECURSIVE GLines(_, _, _)
GLines(st, lns, style) ==
    IF lns = <<>> THEN st
    ELSE GLines(GLine(st, Head(lns), style), Tail(lns), style)

\* groups[-1].append(line_no, kind, obj)
GAppend(st, e) ==
    [st EXCEPT !.groups[Len(st.groups)].overview = Append(@, e)]

\* The smallest of the line numbers, as the loops over lines find it.
MinLineNo(lns) == Min({lns[k] : k \in 1..Len(lns)})

\* Mutant of TooDeep: the last level is cut off as well.
TooDeepOneEarly(level, max_depth) == level >= max_depth

\* level > max_depth
TooDeep(level, max_depth) == level > max_depth

\* Mutant of SipSetCopy: the set of the AstCall itself is added to.
SipSetShared(ac, sip_set) == [ac EXCEPT !.sip_set = sip_set]

\* sip_set = acall.sip_set.copy(): the AstCall after the calls' messages
\* were added to the copy.
SipSetCopy(ac, sip_set) == ac

\* A call add_<kind>(x, level) that is still to be made.
Call(kind, x, name, level) ==
    [kind |-> kind, sip |-> x, name |-> name, level |-> level]

\* for x in items: add_sip(x, level)
SipCalls(items, level) ==
    [k \in 1..Len(items) |-> Call("sip", items[k], None, level)]

\* for x in items: add_acall(x, level) / add_channel(x, level)
NameCalls(kind, items, level) ==
    [k \in 1..Len(items) |-> Call(kind, 0, items[k], level)]

\* Mutant of QAddSip: the dialog is entered for every message, marked
\* call or not.
QAddSipNoCallMark(g, st, i, level, q) ==
    IF i = 0 \/ i \in st.mark_sip \/ TooDeep(level, q.max_depth)
    THEN [st |-> st, calls |-> <<>>]
    ELSE
    LET m == g.sips[i]
        st1 == GLine([st EXCEPT !.mark_sip = @ \cup {i}], m.line_no, "sip")
        s == IF m.dialog # None THEN g.dialogs[m.dialog].sip_list[1] ELSE i
        call_lines == IF m.call_id \in DOMAIN g.links.call_lines
                      THEN g.links.call_lines[m.call_id] ELSE <<>>
        acall_set == IF m.call_id \in DOMAIN g.links.call_acall_map
                     THEN g.links.call_acall_map[m.call_id] ELSE {}
    IN  [st |-> GLines(GAppend(st1, Entry(g.sips[s].line_no, "dialog", s,
                                          None)),
                       call_lines, "verbose"),
         calls |-> <<Call("acall", 0, m.acall, level + 1)>>
                   \o NameCalls("acall", IterNames(acall_set, q.ord),
                                level + 1)
                   \o SipCalls(IterInts(IncludeDialogSips(g, {i}), q.ord),
                               level + 1)]

\* add_sip(sip, level), st holding the groups, the four mark sets and the
\* AstCalls: what it does itself (st) and the calls it then makes, in
\* order (calls).
QAddSip(g, st, i, level, q) ==
    IF i = 0 \/ i \in st.mark_sip \/ TooDeep(level, q.max_depth)
    THEN [st |-> st, calls |-> <<>>]
    ELSE
    LET m == g.sips[i]
        st1 == GLine([st EXCEPT !.mark_sip = @ \cup {i}], m.line_no, "sip")
        s == IF m.dialog # None THEN g.dialogs[m.dialog].sip_list[1] ELSE i
        call_lines == IF m.call_id \in DOMAIN g.links.call_lines
                      THEN g.links.call_lines[m.call_id] ELSE <<>>
        acall_set == IF m.call_id \in DOMAIN g.links.call_acall_map
                     THEN g.links.call_acall_map[m.call_id] ELSE {}
    IN  [st |-> IF m.call_id \in st.mark_call THEN st1
                ELSE GLines(GAppend([st1 EXCEPT !.mark_call =
                                                   @ \cup {m.call_id}],
                                    Entry(g.sips[s].line_no, "dialog", s,
                                          None)),
                            call_lines, "verbose"),
         calls |-> <<Call("acall", 0, m.acall, level + 1)>>
                   \o NameCalls("acall", IterNames(acall_set, q.ord),
                                level + 1)
                   \o SipCalls(IterInts(IncludeDialogSips(g, {i}), q.ord),
                               level + 1)]

\* add_acall(acall, level)
QAddAcall(g, st, a, level, q) ==
    IF a = None \/ a \in st.mark_acall \/ TooDeep(level, q.max_depth)
    THEN [st |-> st, calls |-> <<>>]
    ELSE
    LET ac == st.acalls[a]
        st1 == GLines([st EXCEPT !.mark_acall = @ \cup {a}], ac.lines,
                      "verbose")
        st2 == IF ac.lines = <<>> THEN st1
               ELSE GAppend(st1, Entry(MinLineNo(ac.lines), "astcall", 0, a))
        sip_set == ac.sip_set \cup
                   UNION {{g.links.call_sip_map[c][k] :
                             k \in 1..Len(g.links.call_sip_map[c])} :
                          c \in ac.call_id_set}
    IN  [st |-> [st2 EXCEPT !.acalls[a] = SipSetCopy(@, sip_set)],
         calls |-> NameCalls("channel", IterNames(ac.channel_set, q.ord),
                             level + 1)
                   \o SipCalls(SipsByLine(g, IncludeDialogSips(g, sip_set)),
                               level + 1)]

\* add_channel(channel, level)
QAddChannel(g, st, n, level, q) ==
    IF n = None \/ n \in st.mark_channel \/ TooDeep(level, q.max_depth)
    THEN [st |-> st, calls |-> <<>>]
    ELSE
    LET ch == g.channels[n]
        st1 == GLines([st EXCEPT !.mark_channel = @ \cup {n}], ch.lines,
                      "channel")
    IN  [st |-> IF ch.lines = <<>> THEN st1
                ELSE GAppend(st1, Entry(MinLineNo(ch.lines), "channel", 0,
                                        n)),
         calls |-> NameCalls("acall", IterNames(ch.acall_set, q.ord),
                             level + 1)
                   \o SipCalls(SipsByLine(g, ch.sip_set), level + 1)]

\* One call add_<kind>(x, level) is made.
QAdd(g, st, c, q) ==
    CASE c.kind = "sip" -> QAddSip(g, st, c.sip, c.level, q)
      [] c.kind = "acall" -> QAddAcall(g, st, c.name, c.level, q)
      [] OTHER -> QAddChannel(g, st, c.name, c.level, q)

\* The calls are made in order, each one followed by the calls it makes
\* itself (r.calls) before the next one is made.
RECURSIVE QCalls(_, _, _, _)
RECURSIVE QThen(_, _, _, _)
QCalls(g, st, calls, q) ==
    IF calls = <<>> THEN st
    ELSE QThen(g, QAdd(g, st, Head(calls), q), Tail(calls), q)

QThen(g, r, rest, q) == QCalls(g, r.st, r.calls \o rest, q)

\* The times of the lines, in the order of their texts.
ClockOrder == <<"None", "10:00:00", "10:00:01", "10:00:02">>

ClockRank(w) == CHOOSE k \in 1..Len(ClockOrder) : ClockOrder[k] = w

\* sorted(list(channels), key=lambda c: (c.when, c.name))
ChannelsByWhenName(g, S) ==
    LET key(n) == ClockRank(g.channels[n].when) * 100 + NameRank(n)
        r == Ascending({key(n) : n \in S})
    IN  [k \in 1..Len(r) |-> CHOOSE n \in S : key(n) = r[k]]

\* for x in calls: groups.append(LogGroup()); add_<kind>(x, 0)
RECURSIVE QSeeds(_, _, _, _)
QSeeds(g, st, calls, q) ==
    IF calls = <<>> THEN st
    ELSE QSeeds(g,
                QCalls(g, [st EXCEPT !.groups = Append(@, LogGroup)],
                       <<Head(calls)>>, q),
                Tail(calls), q)

\* link_all, first part: the messages of the phone ref and of their
\* dialogs, by line.
LinkPhoneSips(g, st, ref, q) ==
    LET sip_list == IF ref \in DOMAIN g.links.phone_sip_map
                    THEN g.links.phone_sip_map[ref] ELSE <<>>
    IN  QSeeds(g, st,
               SipCalls(SipsByLine(g, IncludeDialogSips(g,
                   {sip_list[k] : k \in 1..Len(sip_list)})), 0), q)

\* link_all, second part: the channels of the phone ref.
LinkPhoneChannels(g, st, ref, q) ==
    LET chans == IF ref \in DOMAIN g.links.phone_channel_map
                 THEN g.links.phone_channel_map[ref] ELSE {}
    IN  QSeeds(g, st, NameCalls("channel", ChannelsByWhenName(g, chans), 0),
               q)

\* link_all, fourth and fifth part: the channel named ref and the first
\* message of the call ref. (The third part is for queues, and no queue is
\* ever recorded by the logs modelled here.)
LinkChannelAndCall(g, st, ref, q) ==
    LET calls == IF ref \in DOMAIN g.links.call_sip_map
                 THEN g.links.call_sip_map[ref] ELSE <<>>
    IN  QSeeds(g, st,
               (IF ref \in DOMAIN g.channels /\ g.channels[ref].name # None
                THEN NameCalls("channel", <<ref>>, 0) ELSE <<>>)
               \o (IF calls = <<>> THEN <<>>
                   ELSE SipCalls(<<calls[1]>>, 0)),
               q)

\* No group yet, nothing marked.
NothingLinked(acs) ==
    [groups |-> <<>>, mark_call |-> {}, mark_sip |-> {}, mark_acall |-> {},
     mark_channel |-> {}, acalls |-> acs]

\* link_all: the reference is taken as a phone of messages, a phone of
\* channels, the name of a channel and a call_id, in this order.
LinkAll(g, acs, ref, q) ==
    LinkChannelAndCall(g,
        LinkPhoneChannels(g,
            LinkPhoneSips(g, NothingLinked(acs), ref, q), ref, q), ref, q)

\* The order of the kinds of overview entries as texts.
KindRank(kind) ==
    CASE kind = "astcall" -> 0 [] kind = "channel" -> 1 [] OTHER -> 2

\* g.overview.sort(): by line_no, then by kind.
SortOverview(ov) ==
    SortSeq(ov, LAMBDA e1, e2 : e1.line_no * 10 + KindRank(e1.kind)
                                 < e2.line_no * 10 + KindRank(e2.kind))

\* No isolation: isolate = (None, None).
NoIsolation == [ref_type |-> None, ref |-> None, line |-> 0]

\* find_sip_by_ref for the reference call_id/line: the first message of the
\* call whose line_no + 1 is line, 0 for None.
FindSipByRef(g, call_id, line) ==
    LET sips == IF call_id \in DOMAIN g.links.call_sip_map
                THEN g.links.call_sip_map[call_id] ELSE <<>>
        hits == {k \in 1..Len(sips) : g.sips[sips[k]].line_no + 1 = line}
    IN  IF hits = {} THEN 0 ELSE sips[Min(hits)]

\* The object isolation looks for, as an overview entry without its line:
\* kind None when there is none; raised when sip.dialog is asked of None.
IsolatedObject(g, acs, iso) ==
    LET none == [raised |-> FALSE, kind |-> None, sip |-> 0, name |-> None]
    IN  CASE iso.ref_type = "call_id" ->
               IF iso.ref \in DOMAIN g.dialogs
                  /\ g.dialogs[iso.ref].call_id # None
               THEN [none EXCEPT !.kind = "dialog",
                                 !.sip = g.dialogs[iso.ref].sip_list[1]]
               ELSE none
          [] iso.ref_type = "sip_ref" ->
               LET i == FindSipByRef(g, iso.ref, iso.line)
               IN  IF i = 0 THEN [none EXCEPT !.raised = TRUE]
                   ELSE [none EXCEPT
                           !.kind = "dialog",
                           !.sip = IF g.sips[i].dialog # None
                                   THEN g.dialogs[g.sips[i].dialog].sip_list[1]
                                   ELSE i]
          [] iso.ref_type = "chan" ->
               IF iso.ref \in DOMAIN g.channels
                  /\ g.channels[iso.ref].name # None
               THEN [none EXCEPT !.kind = "channel", !.name = iso.ref]
               ELSE none
          [] iso.ref_type = "acall_id" ->
               IF iso.ref \in DOMAIN acs /\ acs[iso.ref].acall_id # None
               THEN [none EXCEPT !.kind = "astcall", !.name = iso.ref]
               ELSE none
          [] OTHER -> none

\* The group holds an overview entry of this kind for this object.
HoldsEntry(grp, obj) ==
    \E k \in 1..Len(grp.overview) :
        /\ grp.overview[k].kind = obj.kind
        /\ grp.overview[k].sip = obj.sip
        /\ grp.overview[k].name = obj.name

\* The end of isolate_groups for an object that was found: the first group
\* that holds it, or none.
IsolatedGroups(groups, obj) ==
    LET hits == {k \in 1..Len(groups) : HoldsEntry(groups[k], obj)}
    IN  IF hits = {} THEN <<>> ELSE <<groups[Min(hits)]>>

\* isolate_groups: the groups with an overview, each overview sorted, the
\* groups sorted by their first line; then the isolation.
IsolateGroups(g, acs, all_groups, iso) ==
    LET kept == SelectSeq(all_groups, LAMBDA grp : grp.overview # <<>>)
        each == [k \in 1..Len(kept) |->
                    [kept[k] EXCEPT !.overview = SortOverview(@)]]
        sorted == SortSeq(each, LAMBDA g1, g2 : g1.overview[1].line_no
                                                < g2.overview[1].line_no)
        obj == IsolatedObject(g, acs, iso)
    IN  IF iso = NoIsolation \/ obj.kind = None THEN sorted
        ELSE IsolatedGroups(sorted, obj)

\* get_objects: the lines of the groups in one map, a later group's line
\* replacing an earlier one's.
RECURSIVE GetObjects(_)
GetObjects(groups) ==
    IF groups = <<>> THEN <<>>
    ELSE groups[Len(groups)].lines
         @@ GetObjects(SubSeq(groups, 1, Len(groups) - 1))

\* What get_linked_objects returns once link_all has left st: the groups
\* and the objects, or that isolate_groups raised; and the AstCalls.
Returned(g, st, iso) ==
    LET raised == iso # NoIsolation
                  /\ IsolatedObject(g, st.acalls, iso).raised
        groups == IF raised THEN <<>>
                  ELSE IsolateGroups(g, st.acalls, st.groups, iso)
    IN  [raised |-> raised, groups |-> groups,
         objects |-> GetObjects(groups), acalls |-> st.acalls]

\* get_linked_objects(ref, isolate, max_depth) on the graph g and the
\* AstCalls acs, sets being iterated in the order ord.
GetLinkedObjects(g, acs, ref, iso, max_depth, ord) ==
    Returned(g, LinkAll(g, acs, ref, [max_depth |-> max_depth, ord |-> ord]),
             iso)

\* find_obj(ref_type, ref): the object found, as an overview entry without
\* its line; a sip_ref is a call_id and a line.
FindObj(g, acs, ref_type, ref, line) ==
    LET none == [kind |-> None, sip |-> 0, name |-> None]
    IN  CASE ref_type = "call_id" ->
               IF ref \in DOMAIN g.dialogs /\ g.dialogs[ref].call_id # None
               THEN [none EXCEPT !.kind = "dialog", !.name = ref]
               ELSE none
          [] ref_type = "sip_ref" ->
               IF FindSipByRef(g, ref, line) = 0 THEN none
               ELSE [none EXCEPT !.kind = "sip",
                                 !.sip = FindSipByRef(g, ref, line)]
          [] ref_type = "chan" ->
               IF ref \in DOMAIN g.channels /\ g.channels[ref].name # None
               THEN [none EXCEPT !.kind = "channel", !.name = ref]
               ELSE none
          [] ref_type = "acall_id" ->
               IF ref \in DOMAIN acs /\ acs[ref].acall_id # None
               THEN [none EXCEPT !.kind = "astcall", !.name = ref]
               ELSE none
          [] OTHER -> none

\* get_phone_set: the keys of phone_channel_map and of phone_sip_map.
GetPhoneSet(g) ==
    {p \in DOMAIN g.links.phone_channel_map :
        g.links.phone_channel_map[p] # {}}
    \cup {p \in DOMAIN g.links.phone_sip_map :
            g.links.phone_sip_map[p] # <<>>}

\* The phones in the order of their texts.
PhoneOrder == <<"100", "200", "a", "b", "c">>

\* number in phone, for the numbers searched for.
NumberIn(number, phone) ==
    \/ number = ""
    \/ number = phone
    \/ number = "00" /\ phone \in {"100", "200"}

\* search(number, chan, call_id)
Search(g, number, chan, call_id) ==
    (IF chan \in DOMAIN g.channels /\ g.channels[chan].name # None
     THEN <<chan>> ELSE <<>>)
    \o (IF call_id \in DOMAIN g.links.call_sip_map
           /\ g.links.call_sip_map[call_id] # <<>>
        THEN <<call_id>> ELSE <<>>)
    \o SelectSeq(PhoneOrder,
                 LAMBDA p : p \in GetPhoneSet(g) /\ NumberIn(number, p))

----------------------------------------------------------------------------
(* Queries on the graph of a parsed log (SpecQuery) *)

\* How many SIP messages the parsed log holds at most.
MaxMsgs == 6

\* The AstCalls of the log: A1, A2, ...
QueryAcallIds == {NameOrder[k] : k \in 1..MaxMsgs}

\* A log: n messages, each under its own AstCall (own), or so but for the
\* first, which is under none (later), or all under the first AstCall
\* (shared); all of one call or alternating between two calls from the
\* same number; and lines that tie a channel to the AstCalls of the first
\* and the last message, or a line that ties the call to the AstCall of
\* the last message.
Scenarios ==
    {sc \in [n : 1..MaxMsgs, acalls : {"own", "later", "shared"},
             calls : {"one", "two"},
             link : {"none", "fallthrough", "exec", "destroy"}] :
        /\ sc.calls = "two" => sc.acalls = "later"
        /\ sc.acalls = "later" => sc.link = "none"}

MsgAcall(sc, k) ==
    CASE sc.acalls = "own" -> NameOrder[k]
      [] sc.acalls = "later" -> IF k = 1 THEN None ELSE NameOrder[k]
      [] OTHER -> NameOrder[1]

MsgCall(sc, k) == IF sc.calls = "two" /\ k % 2 = 0 THEN "Y" ELSE "X"

\* The lines of message k: a timestamped line of its AstCall, the banner,
\* the request, From (first message of a call only), Call-ID and a line
\* of dashes.
MsgLines(sc, k) ==
    <<Line("ts_plain", MsgAcall(sc, k), "10:00:00", None, None, None, <<>>),
      SipLine("banner_in", "10.0.0.1:5060", "no NAT", None),
      SipLine("request", "INVITE", "10.0.0.1", None)>>
    \o (IF k = 1 \/ (k = 2 /\ sc.calls = "two")
        THEN <<SipLine("From", None, "100", "h")>> ELSE <<>>)
    \o <<SipLine("Call-ID", MsgCall(sc, k), None, None),
         SipLine("separator", None, None, None)>>

\* A pbx.c line of AstCall a that names the channel SIP/c-1.
LinkLine(sc, a) ==
    IF sc.link = "exec"
    THEN Line("pbx_exec", a, "10:00:01", "200", "NoOp", "SIP/c-1", <<>>)
    ELSE Line("pbx_fallthrough", a, "10:00:01", None, None, "SIP/c-1", <<>>)

RECURSIVE MsgsLines(_, _)
MsgsLines(sc, k) ==
    IF k = 0 THEN <<>> ELSE MsgsLines(sc, k - 1) \o MsgLines(sc, k)

\* A chan_sip.c line of AstCall a: Really destroying SIP dialog 'X'.
DestroyLine(a) == Line("cs_destroy", a, "10:00:01", "X", None, None, <<>>)

Script(sc) ==
    MsgsLines(sc, sc.n)
    \o CASE sc.link = "none" -> <<>>
         [] sc.link = "destroy" -> <<DestroyLine(MsgAcall(sc, sc.n))>>
         [] OTHER -> <<LinkLine(sc, MsgAcall(sc, 1)),
                       LinkLine(sc, MsgAcall(sc, sc.n))>>

\* The order this run of the program iterates its sets in.
SetOrders == {"asc", "desc"}

InitQuery ==
    /\ pc = "parsing"
    /\ line_no = -1
    /\ when = None
    /\ acall = None
    /\ sip = 0
    /\ sip_messages = <<>>
    /\ dialogs = [c \in CallIds |-> NoDialog]
    /\ call_timeouts = [c \in CallIds |-> <<>>]
    /\ links = InitLinks
    /\ acalls = [a \in QueryAcallIds |-> NoAcall]
    /\ channels = [n \in ChanNames |-> NoChannel]
    /\ dials = <<>>
    /\ fnd = NoSearch
    /\ rd = NoRead
    /\ NoLoadOptions
    /\ \E sc \in Scenarios, ord \in SetOrders :
          /\ qry = [pc |-> "idle", log |-> sc, ord |-> ord]
          /\ max_lines = Len(Script(sc))

\* The line the loop reads next.
NextLine ==
    {Script(qry.log)[k] : k \in {line_no + 2} \cap 1..max_lines}

\* What a find is made for: the phone of a message, the extension of a
\* channel, a call_id, a channel.
QueryRefs == {"100", "200", "X", "SIP/c-1"}

\* The isolation tuples: none; by call_id, sip_ref, chan and acall_id for
\* an entity of the log; by call_id and sip_ref for one it does not hold.
QueryIsolations ==
    {NoIsolation,
     [ref_type |-> "call_id", ref |-> "X", line |-> 0],
     [ref_type |-> "call_id", ref |-> "Y", line |-> 0],
     [ref_type |-> "call_id", ref |-> "Z", line |-> 0],
     [ref_type |-> "sip_ref", ref |-> "X", line |-> 3],
     [ref_type |-> "sip_ref", ref |-> "X", line |-> 4],
     [ref_type |-> "chan", ref |-> "SIP/c-1", line |-> 0],
     [ref_type |-> "acall_id", ref |-> "A1", line |-> 0]}

\* max_depth=10
DefaultDepth == 10

\* A depth no log modelled here reaches.
LargeDepth == 100

QueryFrame ==
    UNCHANGED <<max_lines, pc, line_no, when, acall, sip, sip_messages,
                dialogs, call_timeouts, links, channels, dials, fnd, rd,
                txt, progress, cdr>>

\* What a call of get_linked_objects that returned r leaves in qry and in
\* the AstCalls.
Linked(r, ref, iso, max_depth) ==
    /\ qry' = [pc |-> "queried", log |-> qry.log, ord |-> qry.ord,
               op |-> "get_linked_objects", ref |-> ref, isolate |-> iso,
               max_depth |-> max_depth, raised |-> r.raised,
               groups |-> r.groups, objects |-> r.objects]
    /\ acalls' = r.acalls

\* LogDisplay.load_result: the isolation is reset and the log is refreshed
\* for ref.
FindRef(ref) ==
    /\ pc = "done"
    /\ Linked(GetLinkedObjects(Graph, acalls, ref, NoIsolation, DefaultDepth,
                               qry.ord),
              ref, NoIsolation, DefaultDepth)
    /\ QueryFrame

\* LogDisplay.isolate: the isolation is set where there is none, or it is
\* reset, and the log is refreshed for the reference of the last find.
Isolate(iso) ==
    /\ pc = "done"
    /\ qry.pc = "queried"
    /\ qry.op = "get_linked_objects"
    /\ qry.isolate = NoIsolation \/ iso = NoIsolation
    /\ Linked(GetLinkedObjects(Graph, acalls, qry.ref, iso, qry.max_depth,
                               qry.ord),
              qry.ref, iso, qry.max_depth)
    /\ QueryFrame

\* find_obj is called.
FindObject(iso) ==
    /\ pc = "done"
    /\ iso # NoIsolation
    /\ qry' = [pc |-> "queried", log |-> qry.log, ord |-> qry.ord,
               op |-> "find_obj", isolate |-> iso,
               found |-> FindObj(Graph, acalls, iso.ref_type, iso.ref,
                                 iso.line)]
    /\ UNCHANGED acalls
    /\ QueryFrame

\* search is called.
SearchFor(number, chan, call_id) ==
    /\ pc = "done"
    /\ qry' = [pc |-> "queried", log |-> qry.log, ord |-> qry.ord,
               op |-> "search", number |-> number, chan |-> chan,
               call_id |-> call_id,
               results |-> Search(Graph, number, chan, call_id)]
    /\ UNCHANGED acalls
    /\ QueryFrame

NextQuery ==
    \/ \E l \in NextLine :
          \/ OfferToSip(l)
          \/ BannerLine(l)
          \/ PlainTimestamp(l)
          \/ ChanSipLine(l)
          \/ PbxLine(l)
    \/ (line_no + 1 = max_lines /\ EndOfFile)
    \/ \E ref \in QueryRefs : FindRef(ref)
    \/ \E iso \in QueryIsolations :
          \/ Isolate(iso)
          \/ FindObject(iso)
    \/ \E number \in {"", "00", "5"}, call_id \in {"X", "Z"} :
          SearchFor(number, "SIP/c-1", call_id)

SpecQuery == InitQuery /\ [][NextQuery]_vars

----------------------------------------------------------------------------
(* The text of a line: the string operations of the parser *)

\* line[i]
StrAt(line, i) == SubSeq(line, i + 1, i + 1)

\* line[i:j] and line[i:]
StrSlice(line, i, j) == SubSeq(line, i + 1, Min({j, Len(line)}))

StrFrom(line, i) == StrSlice(line, i, Len(line))

StrStartsWith(line, prefix) ==
    Len(prefix) <= Len(line) /\ SubSeq(line, 1, Len(prefix)) = prefix

\* line.find(sub, start, end): the first index from start on at which sub
\* lies within line[:end], -1 when there is none.
StrFind(line, sub, start, end) ==
    LET last == Min({end, Len(line)}) - Len(sub)
        hits == {i \in start..last : SubSeq(line, i + 1, i + Len(sub)) = sub}
    IN  IF hits = {} THEN -1 ELSE Min(hits)

StrHas(line, sub) == StrFind(line, sub, 0, Len(line)) >= 0

\* delimited(line, delimiter, delimiter2, start, end): the text between
\* the two delimiters and where the second lies; s = None and pos = -1 for
\* (None, None).
Delimited(line, delimiter, delimiter2, start, end) ==
    LET a == StrFind(line, delimiter, start, end)
        b == StrFind(line, delimiter2, a + Len(delimiter), Len(line))
    IN  IF a >= 0 /\ b >= 0
        THEN [s |-> StrSlice(line, a + Len(delimiter), b), pos |-> b]
        ELSE [s |-> None, pos |-> -1]

\* A position that may be None, as the start or end of a find.
FromPos(pos) == IF pos = -1 THEN 0 ELSE pos

ToPos(line, pos) == IF pos = -1 THEN Len(line) ELSE pos

\* if b':' not in addr: addr += b':5060'
DefaultPort(addr) == IF StrHas(addr, ":") THEN addr ELSE addr \o ":5060"

\* parse_from_to(line, start): [name, num, addr]. The line has a
\* character at start.
ParseFromTo(line, start) ==
    LET c == StrAt(line, start)
        quoted == Delimited(line, "\"", "\"", start, Len(line))
        plain == Delimited(line, "<sip:", ">", start, Len(line))
        num0 == IF c = "\""
                THEN Delimited(line, "<sip:", ">", FromPos(quoted.pos),
                               Len(line)).s
                ELSE plain.s
        name == IF c = "<" THEN None
                ELSE IF c = "\"" THEN quoted.s
                ELSE Delimited(line, " ", " ", start,
                               ToPos(line, plain.pos)).s
        semi == StrFind(num0, ";", 0, Len(num0))
        num1 == IF semi > 0 THEN StrSlice(num0, 0, semi) ELSE num0
        at == StrFind(num1, "@", 0, Len(num1))
    IN  IF ~Truthy(num0) THEN [name |-> name, num |-> num0, addr |-> None]
        ELSE IF at > 0
        THEN [name |-> name, num |-> StrSlice(num1, 0, at),
              addr |-> DefaultPort(StrFrom(num1, at + 1))]
        ELSE [name |-> name, num |-> num1, addr |-> None]

\* The request line as add_header reads it: the method before the first
\* space, and the address of the 'sip:' URL without its user and its
\* parameters. No port is added. A line with no space is a token; one
\* with no 'sip:' ... ' ' span is given as a text line.
ParseRequest(line) ==
    LET pos == StrFind(line, " ", 0, Len(line))
        url == Delimited(line, "sip:", " ", pos, Len(line)).s
        at == StrFind(url, "@", 0, Len(url))
        addr1 == IF at > 0 THEN StrFrom(url, at + 1) ELSE url
        semi == StrFind(addr1, ";", 0, Len(addr1))
        addr2 == IF semi > 0 THEN StrSlice(addr1, 0, semi) ELSE addr1
    IN  IF pos = -1 THEN SipLine("token", None, None, None)
        ELSE IF url = None THEN SipLine("text", None, None, None)
        ELSE SipLine("request", StrSlice(line, 0, pos), addr2, None)

\* A line of a SIP message as add_header reads it. The address of a From
\* or To line is given as parse_from_to returns it, its port included.
ParseHeader(line) ==
    IF StrStartsWith(line, "SIP/2.0")
    THEN SipLine("status", StrFrom(line, 8), None, None)
    ELSE IF StrStartsWith(line, "From:")
    THEN LET r == ParseFromTo(line, 6)
         IN  SipLine("From", r.name, r.num, r.addr)
    ELSE IF StrStartsWith(line, "To:")
    THEN LET r == ParseFromTo(line, 4)
         IN  SipLine("To", r.name, r.num, r.addr)
    ELSE IF StrStartsWith(line, "Call-ID:")
    THEN SipLine("Call-ID", StrFrom(line, 9), None, None)
    ELSE IF StrStartsWith(line, "Via:")
    THEN SipLine("Via", Delimited(line, " ", ";", 14, Len(line)).s, None,
                 None)
    ELSE IF StrStartsWith(line, "CSeq:")
    THEN SipLine("CSeq", StrFrom(line, 6), None, None)
    ELSE ParseRequest(line)

\* b'(NAT)' in line
NatOf(line) == IF StrHas(line, "(NAT)") THEN "NAT" ELSE "no NAT"

\* link_acall on the text: the call token in the second pair of brackets
\* after VERBOSE, WARNING or ERROR; [acall, pos].
LinkAcallText(line, pos) ==
    LET v == StrFind(line, "VERBOSE[", pos, Len(line))
        w == StrFind(line, "WARNING[", pos, Len(line))
        e == StrFind(line, "ERROR[", pos, Len(line))
        idx == IF v # -1 THEN v ELSE IF w # -1 THEN w ELSE e
        l == IF v # -1 \/ w # -1 THEN 8 ELSE 6
        p1 == idx + l
        i1 == StrFind(line, "][", p1, p1 + 10)
        p2 == i1 + 2
        i2 == StrFind(line, "]", p2, p2 + 15)
    IN  IF idx >= 0 /\ i1 > 0 /\ i2 > 0
        THEN [acall |-> StrSlice(line, p2, i2), pos |-> i2 + 1]
        ELSE [acall |-> None, pos |-> pos]

\* A line that begins with '[' as load_file and parse_chan_sip_c read it.
\* The texts carry the tag chan_sip.c or no module tag.
ParseTimestamped(line) ==
    LET pos == StrFind(line, "]", 5, Len(line))
        w == StrSlice(line, 1, pos)
        a == LinkAcallText(line, pos)
        tag == StrFind(line, "chan_sip.c:", a.pos, Len(line))
        p == tag + 11
        rel == StrFind(line, "Reliably Transmitting", p, Len(line))
        tra == StrFind(line, "Transmitting", p, Len(line))
        relto == StrFind(line, " to ", rel + 21, Len(line))
        trato == StrFind(line, " to ", tra + 12, Len(line))
        peer(idx) == IF idx > 0 THEN StrSlice(line, idx + 4, Len(line) - 1)
                     ELSE None
    IN  IF pos = -1 THEN Line("ts_malformed", None, None, None, None, None,
                              <<>>)
        ELSE IF tag >= 0 /\ rel > 0
        THEN Line("cs_reliably", a.acall, w, peer(relto), NatOf(line), None,
                  <<>>)
        ELSE IF tag >= 0 /\ tra > 0
        THEN Line("cs_transmit", a.acall, w, peer(trato), NatOf(line), None,
                  <<>>)
        ELSE Line("ts_plain", a.acall, w, None, None, None, <<>>)

\* A banner line as load_file reads it.
ParseBanner(line) ==
    IF StrStartsWith(line, "<--- SIP read from")
    THEN SipLine("banner_in", Delimited(line, ":", " ", 18, Len(line)).s,
                 "no NAT", None)
    ELSE IF StrStartsWith(line, "<--- Transmitting")
    THEN SipLine("banner_out", Delimited(line, " to ", " ", 17, Len(line)).s,
                 NatOf(line), None)
    ELSE IF StrStartsWith(line, "<--- Reliably Transmitting")
    THEN SipLine("banner_rel", Delimited(line, " to ", " ", 26, Len(line)).s,
                 NatOf(line), None)
    ELSE SipLine("separator", None, None, None)

\* What the text of a line is to the parser.
ParseLine(line) ==
    IF line = "" THEN SipLine("blank", None, None, None)
    ELSE IF StrStartsWith(line, "<--") \/ StrStartsWith(line, "---")
    THEN ParseBanner(line)
    ELSE IF StrStartsWith(line, "[") THEN ParseTimestamped(line)
    ELSE ParseHeader(line)

----------------------------------------------------------------------------
(* load_file on the text of one SIP message *)

\* The line that announces the message.
IntroTexts ==
    {"[10:00:00] VERBOSE[1][A] chan_sip.c: Transmitting (no NAT) to 10.0.0.1:5060:",
     "[10:00:00] VERBOSE[1] chan_sip.c: Reliably Transmitting (NAT) to 10.0.0.1:5060:",
     "[10:00:00] VERBOSE[1][A] chan_sip.c: nothing of interest",
     "<--- SIP read from UDP:10.0.0.1:5060 --->",
     "<--- Transmitting (NAT) to 10.0.0.1:5060 --->"}

FirstTexts ==
    {"INVITE sip:bob@10.0.0.1 SIP/2.0",
     "INVITE sip:bob@10.0.0.1:5070;user=phone SIP/2.0",
     "SIP/2.0 100 Trying"}

FromTexts ==
    {"From: \"Alice\" <sip:100@h>",
     "From: <sip:100@h:5070>;tag=1",
     "From: Alice <sip:100>"}

ToTexts ==
    {"To: <sip:200@10.0.0.1>",
     "To: <sip:200@10.0.0.1;user=phone>"}

\* The log: the intro line, the lines of the header and a blank line.
MessageTexts ==
    {<<i, f, fr, to, "Call-ID: X@h", "CSeq: 1 INVITE",
       "Via: SIP/2.0/UDP 10.0.0.2:5060;branch=z9hG4bK1", "">> :
        i \in IntroTexts, f \in FirstTexts, fr \in FromTexts, to \in ToTexts}

InitText ==
    /\ InitParser
    /\ fnd = NoSearch /\ rd = NoRead /\ qry = NoQuery
    /\ progress = NoProgress /\ cdr = NoCdr
    /\ \E lines \in MessageTexts :
          /\ txt = [pc |-> "given", lines |-> lines]
          /\ max_lines = Len(lines)

\* The line the loop reads next.
NextText == {ParseLine(txt.lines[k]) : k \in {line_no + 2} \cap 1..max_lines}

NextOnText ==
    \/ \E l \in NextText :
          \/ OfferToSip(l)
          \/ BannerLine(l)
          \/ OtherLine(l)
          \/ PlainTimestamp(l)
          \/ ChanSipLine(l)
    \/ (line_no + 1 = max_lines /\ EndOfFile)

SpecText == InitText /\ [][NextOnText]_vars

----------------------------------------------------------------------------
(* load_file with the progress callback of App.reload_file *)

\* elif line_no % 10000 == 0
FooterEvery == 10000

\* How many lines the log of SpecProgress holds at most.
MaxProgressLines == 10001

\* The bytes of a line of the log, its newline included.
LineSizes == {1, 2}

\* Mutant of ProgressDue: load_file itself calls every 10000 lines.
ProgressDueEvery(ln) == ln % FooterEvery = 0

\* load_file's `if progress:` with a callback given: every line.
ProgressDue(ln) == TRUE

\* reload_file's progress(module, line_no, data_pos, data_len): the final
\* call (data_pos -1) sets the results and clears the footer; a call with
\* line_no a multiple of 10000 writes the footer and draws the screen;
\* another call does nothing. calls counts the invocations.
Progress(p, module, ln, data_pos, data_len) ==
    LET seen == [p EXCEPT !.calls = @ + 1, !.module = module,
                          !.line_no = ln, !.data_pos = data_pos,
                          !.data_len = data_len]
    IN  IF data_pos = -1
        THEN [seen EXCEPT !.results = TRUE, !.footer = <<>>]
        ELSE IF ln % FooterEvery = 0
        THEN [seen EXCEPT !.footer = <<module, ln>>, !.drawn = @ + 1]
        ELSE seen

\* A log of max_lines lines of one size, none of them a timestamped line
\* or a banner.
InitProgress ==
    /\ InitParser
    /\ fnd = NoSearch /\ rd = NoRead /\ qry = NoQuery
    /\ txt = NoText /\ cdr = NoCdr
    /\ \E n \in {0, 1, MaxProgressLines}, size \in LineSizes :
          /\ max_lines = n
          /\ progress = [pc |-> "given", line_size |-> size, calls |-> 0,
                         module |-> None, line_no |-> -1, data_pos |-> 0,
                         data_len |-> n * size, results |-> FALSE,
                         footer |-> <<>>, drawn |-> 0]

ProgressFrame ==
    UNCHANGED <<max_lines, when, acall, sip, sip_messages, dialogs,
                call_timeouts, links, acalls, channels, dials, fnd, rd, qry,
                txt, cdr>>

\* One turn of the loop on a line that is dispatched to nothing: get_line
\* moves data_pos past the line, and the callback is called.
ProgressLine ==
    /\ CanRead
    /\ sip = 0
    /\ line_no' = line_no + 1
    /\ progress' =
          IF ProgressDue(line_no + 1)
          THEN Progress(progress, "log", line_no + 1,
                        (line_no + 2) * progress.line_size,
                        progress.data_len)
          ELSE progress
    /\ UNCHANGED pc
    /\ ProgressFrame

\* The end of the data: no message is active, no CDR file is given, and
\* the callback is called with data_pos -1.
ProgressEnd ==
    /\ pc = "parsing"
    /\ line_no + 1 = max_lines
    /\ sip = 0
    /\ pc' = "done"
    /\ progress' = Progress(progress, "log", line_no, -1, progress.data_len)
    /\ UNCHANGED line_no
    /\ ProgressFrame

NextProgress == ProgressLine \/ ProgressEnd

SpecProgress == InitProgress /\ [][NextProgress]_vars

----------------------------------------------------------------------------
(* LogParser.load_cdr: the channels enriched from the CDR file *)

MaxCdrRows == 3
MaxCdrT == 3

\* len(row) < 16
CdrColumns == 16

\* start_pos - 1000000 and finish_pos + 1000000
CdrSlack == 1000000

\* A row of the CDR file: cols columns, row[9] (start) and row[10] the
\* time t, row[1] src, row[2] dst, row[4] the caller id (clid_name is None
\* when the column has no '<'), row[5] chan, row[6] dst_chan; len is the
\* size of the row's text. The first column (accountcode) is empty, so
\* the text from any offset inside a row has fewer columns than the row.
CdrFull1(t) ==
    [t |-> t, len |-> 2, cols |-> 16, src |-> "200", dst |-> "c",
     clid_name |-> "Alice", clid_num |-> "200",
     chan |-> "SIP/a-1", dst_chan |-> "SIP/b-1"]

CdrFull2(t) ==
    [t |-> t, len |-> 2, cols |-> 16, src |-> "a", dst |-> "b",
     clid_name |-> None, clid_num |-> "a",
     chan |-> "SIP/b-1", dst_chan |-> "SIP/c-1"]

CdrShort(t) ==
    [t |-> t, len |-> 1, cols |-> 15, src |-> "a", dst |-> "b",
     clid_name |-> "Alice", clid_num |-> "a",
     chan |-> "SIP/a-1", dst_chan |-> "SIP/b-1"]

CdrRows ==
    UNION {{CdrFull1(t), CdrFull2(t), CdrShort(t)} : t \in 1..MaxCdrT}

\* The CDR file: its rows are in the order of their times.
CdrFiles ==
    {rs \in UNION {[1..n -> CdrRows] : n \in 0..MaxCdrRows} :
        \A i \in 1..Len(rs), j \in 1..Len(rs) :
            i < j => rs[i].t <= rs[j].t}

\* The log: extension 100 runs on SIP/a-1 at time t1 and on SIP/b-1 at
\* time t2; SIP/c-1 is a channel the log never names.
CdrLog(t1, t2) ==
    <<Line("pbx_exec", None, Digits[t1], "100", "NoOp", "SIP/a-1", <<>>),
      Line("pbx_exec", None, Digits[t2], "100", "NoOp", "SIP/b-1", <<>>)>>

\* What read_cdr_when sees of the file: a row of fewer than 16 columns
\* has no time.
CdrView(rows) ==
    [i \in 1..Len(rows) |->
        [t |-> IF rows[i].cols >= CdrColumns THEN rows[i].t ELSE 0,
         len |-> rows[i].len]]

\* A channel name that is not a key of caller_id_chan_map.
NoCallerId == [has |-> FALSE, name |-> None, num |-> None]

\* not start_pos: None and 0 alike
NotPos(p) == p = NoPos \/ p = 0

\* f.seek(max(0, start_pos - 1000000)): the first row csv.reader yields
\* whole from there.
CdrSeek(rows, start_pos) ==
    LET at == Max({0, start_pos - CdrSlack})
    IN  Min({i \in 1..Len(rows) : LineStart(rows, i) >= at}
            \cup {Len(rows) + 1})

InitCdr ==
    /\ InitParser
    /\ fnd = NoSearch /\ rd = NoRead /\ qry = NoQuery
    /\ txt = NoText /\ progress = NoProgress
    /\ \E rows \in CdrFiles, t1 \in 1..MaxCdrT, t2 \in 1..MaxCdrT :
          /\ t1 <= t2
          /\ cdr = [pc |-> "given", rows |-> rows, log |-> CdrLog(t1, t2),
                    start_pos |-> NoPos, finish_pos |-> NoPos, row |-> 0,
                    phone_chan_map |-> [n \in ChanNames |-> {}],
                    caller_id_chan_map |-> [n \in ChanNames |-> NoCallerId]]
          /\ max_lines = Len(CdrLog(t1, t2))

\* The line of the log that load_file reads next.
NextCdrLine == {cdr.log[k] : k \in {line_no + 2} \cap 1..max_lines}

\* first_when: the time of the first timestamped line that was read.
FirstWhen(lines) == lines[1].when

\* The log is exhausted: load_file finishes a pending message and calls
\* load_cdr(first_when, when, progress), which finds the window in the
\* file, returns if a position is missing and seeks otherwise.
CdrOpen ==
    /\ pc = "parsing"
    /\ cdr.pc = "given"
    /\ line_no + 1 = max_lines
    /\ IF sip # 0
       THEN FinishSip(sip_messages, sip)
       ELSE UNCHANGED <<sip_messages, dialogs, links, acalls>>
    /\ LET start_pos == SizedFind(CdrView(cdr.rows),
                                  <<FirstWhen(cdr.log)>>, "after")
           finish_pos == SizedFind(CdrView(cdr.rows), <<when>>, "before")
       IN  IF NotPos(start_pos) \/ NotPos(finish_pos)
           THEN /\ cdr' = [cdr EXCEPT !.pc = "returned",
                                      !.start_pos = start_pos,
                                      !.finish_pos = finish_pos]
                /\ pc' = "done"
           ELSE /\ cdr' = [cdr EXCEPT !.pc = "rows",
                                      !.start_pos = start_pos,
                                      !.finish_pos = finish_pos,
                                      !.row = CdrSeek(cdr.rows, start_pos)]
                /\ pc' = pc
    /\ UNCHANGED <<max_lines, line_no, when, acall, sip, call_timeouts,
                   channels, dials, fnd,
                   rd, qry, txt, progress>>

\* The phones a row names: src, dst, clid_num, and clid_name if any.
CdrPhones(r) ==
    {r.src, r.dst, r.clid_num}
        \cup (IF Truthy(r.clid_name) THEN {r.clid_name} ELSE {})

\* One turn of `for row in reader`. f.tell() lies between the end of the
\* row and the end of the file (the file object reads ahead).
CdrRow ==
    /\ pc = "parsing"
    /\ cdr.pc = "rows"
    /\ cdr.row <= Len(cdr.rows)
    /\ LET r == cdr.rows[cdr.row]
       IN  IF r.cols < CdrColumns
           THEN cdr' = [cdr EXCEPT !.row = @ + 1]
           ELSE \E tell \in {LineStart(cdr.rows, cdr.row + 1),
                             FileSize(cdr.rows)} :
                   cdr' = [cdr EXCEPT
                      !.phone_chan_map =
                          [n \in ChanNames |->
                              IF n \in {r.chan, r.dst_chan}
                              THEN @[n] \cup CdrPhones(r) ELSE @[n]],
                      !.caller_id_chan_map[r.chan] =
                          [has |-> TRUE, name |-> r.clid_name,
                           num |-> r.clid_num],
                      !.row = IF tell > cdr.finish_pos + CdrSlack
                              THEN Len(cdr.rows) + 1 ELSE @ + 1]
    /\ UNCHANGED <<max_lines, pc, line_no, when, acall, sip, sip_messages,
                   dialogs, call_timeouts, links, acalls, channels, dials,
                   fnd, rd, qry, txt, progress>>

\* After the rows: the channels that exist get the phones and the caller
\* id collected for their names, and load_file returns.
CdrLink ==
    /\ pc = "parsing"
    /\ cdr.pc = "rows"
    /\ cdr.row > Len(cdr.rows)
    /\ links' = [links EXCEPT !.phone_channel_map =
          [p \in DOMAIN @ |->
              @[p] \cup {n \in ChanNames :
                            /\ channels[n].name # None
                            /\ p \in cdr.phone_chan_map[n]}]]
    /\ channels' =
          [n \in ChanNames |->
              IF channels[n].name # None /\ cdr.caller_id_chan_map[n].has
              THEN [channels[n] EXCEPT
                      !.clid_name = cdr.caller_id_chan_map[n].name,
                      !.clid_num = cdr.caller_id_chan_map[n].num]
              ELSE channels[n]]
    /\ cdr' = [cdr EXCEPT !.pc = "returned"]
    /\ pc' = "done"
    /\ UNCHANGED <<max_lines, line_no, when, acall, sip, sip_messages,
                   dialogs, call_timeouts, acalls, dials,
                   fnd, rd, qry, txt, progress>>

NextCdr ==
    \/ \E l \in NextCdrLine : PbxLine(l)
    \/ CdrOpen
    \/ CdrRow
    \/ CdrLink

SpecCdr == InitCdr /\ [][NextCdr]_vars

----------------------------------------------------------------------------
(* load_file on a log of a pickup: SIP messages among the dialplan lines *)

\* How many SIP messages lie between the dialplan lines and the answer.
MaxBetween == 2

\* A SIP message of call X as one item of the log: its status x (None for
\* a request), the number y of its From header and its request z.
PickupSips ==
    {DialLine("sip", None, "200 OK", "c", None, <<>>),
     DialLine("sip", None, "200 OK", "b", None, <<>>),
     DialLine("sip", None, "100 Trying", "c", None, <<>>),
     DialLine("sip", None, None, "c", "INVITE", <<>>)}

PickupAttempt == DialLine("ft_pickup", None, "SIP/b-1", "SIP/c-1", None, <<>>)

PickupDial ==
    DialLine("pbx_exec", "A", "100", "Dial", "SIP/a-1",
             <<"SIP/b", "&", "SIP/c", ",", "20">>)

\* SIP/c-1, which attempted the pickup, answers SIP/a-1 or SIP/b-1, or
\* SIP/b-1, which did not, answers SIP/a-1.
PickupAnswers ==
    {DialLine("ad_answered", "A", "SIP/c-1", "SIP/a-1", None, <<>>),
     DialLine("ad_answered", "A", "SIP/c-1", "SIP/b-1", None, <<>>),
     DialLine("ad_answered", "A", "SIP/b-1", "SIP/a-1", None, <<>>)}

\* The logs: at most one message, then the Dial with the pickup attempt
\* before it, after it or missing, then messages, then the answer.
PickupScripts ==
    {before \o start \o between \o <<answer>> :
        before \in UNION {[1..n -> PickupSips] : n \in 0..1},
        start \in {<<PickupDial>>, <<PickupAttempt, PickupDial>>,
                   <<PickupDial, PickupAttempt>>},
        between \in UNION {[1..n -> PickupSips] : n \in 0..MaxBetween},
        answer \in PickupAnswers}

\* The lines of an item: a message is its banner and its content.
ItemLines(it) == IF it.kind = "sip" THEN 2 ELSE 1

RECURSIVE LinesOf(_)
LinesOf(items) ==
    IF items = <<>> THEN 0 ELSE ItemLines(Head(items)) + LinesOf(Tail(items))

InitPickup ==
    /\ InitParser
    /\ fnd = NoSearch /\ rd = NoRead /\ qry = NoQuery
    /\ progress = NoProgress /\ cdr = NoCdr
    /\ \E items \in PickupScripts :
          /\ txt = [pc |-> "parsed", items |-> items]
          /\ max_lines = LinesOf(items)

\* The item of the log that load_file reads next.
NextPickupItem ==
    {txt.items[k] : k \in {j \in 1..Len(txt.items) :
                              LinesOf(SubSeq(txt.items, 1, j - 1))
                                  = line_no + 1}}

\* One message goes through LogParser.sip and finish_sip: its banner is
\* the next line, the message is numbered by the line after it.
PickupSipArrives(l) ==
    /\ pc = "parsing"
    /\ line_no + 2 < max_lines
    /\ l.kind = "sip"
    /\ FinishSip(Append(sip_messages,
                        [AssembledSip(line_no + 2,
                                      [request |-> l.z, status |-> l.x,
                                       via_addr |-> "10.0.0.2:5060"])
                            EXCEPT !.from_num = l.y]),
                 Len(sip_messages) + 1)
    /\ line_no' = line_no + 2
    /\ UNCHANGED <<max_lines, pc, when, acall, sip, call_timeouts, channels,
                   dials, fnd,
                   rd, qry, txt, progress, cdr>>

NextPickup ==
    \E l \in NextPickupItem :
        \/ PickupSipArrives(l)
        \/ FeaturesLine(l)
        \/ PbxLine(l)
        \/ AppDialLine(l)

SpecPickup == InitPickup /\ [][NextPickup]_vars

----------------------------------------------------------------------------
(* finish_sip on requests and responses with their CSeq headers *)

\* How many messages SpecCseq offers.
MaxCseqSips == 3

\* What add_header leaves in a message: a request or a status, the text
\* of the CSeq header (None without one) and the Call-ID (None without
\* one).
CseqSips ==
    {[request |-> f[1], status |-> f[2], cseq |-> f[3], call_id |-> c] :
        f \in {<<"INVITE", None, "1 INVITE">>,
               <<"ACK", None, "1 ACK">>,
               <<"BYE", None, "2 BYE">>,
               <<"OPTIONS", None, None>>,
               <<None, "200 OK", "1 INVITE">>,
               <<None, "200 OK", "2 BYE">>,
               <<None, "100 Trying", None>>},
        c \in {"X", "Y"}}
    \cup {[request |-> None, status |-> "200 OK", cseq |-> "1 INVITE",
           call_id |-> None]}

\* One message goes through LogParser.sip and finish_sip.
CseqSipArrives(f) ==
    /\ Len(sip_messages) < MaxCseqSips
    /\ FinishSip(Append(sip_messages,
                        [AssembledSip(line_no + 2,
                                      [request |-> f.request,
                                       status |-> f.status,
                                       via_addr |-> "10.0.0.2:5060"])
                            EXCEPT !.cseq = f.cseq,
                                   !.call_id = f.call_id]),
                 Len(sip_messages) + 1)
    /\ line_no' = line_no + 2
    /\ UNCHANGED <<max_lines, pc, when, acall, sip, call_timeouts, channels,
                   dials, fnd,
                   rd, qry, txt, progress, cdr>>

NextCseq == \E f \in CseqSips : CseqSipArrives(f)

SpecCseq == InitDialog /\ [][NextCseq]_vars

----------------------------------------------------------------------------
(* LogGroup.line, insert by insert *)

\* How many inserts one group receives.
MaxInserts == 4

\* The inserts get_linked_objects makes: the lines of AstCalls and calls
\* as 'verbose', the lines of channels as 'channel', the line of a
\* message, which is no line of those, as 'sip'.
GroupInserts ==
    {[line_no |-> ln, style |-> style] :
        ln \in {1, 2}, style \in {"verbose", "channel"}}
    \cup {[line_no |-> 3, style |-> "sip"]}

InitGroup ==
    /\ InitParser
    /\ max_lines = 0
    /\ fnd = NoSearch /\ rd = NoRead /\ NoLoadOptions
    /\ qry = [pc |-> "group", group |-> LogGroup, inserts |-> <<>>]

\* group.line(line_no, style, line)
GroupLine(e) ==
    /\ qry.pc = "group"
    /\ Len(qry.inserts) < MaxInserts
    /\ qry' = [qry EXCEPT
                 !.group.lines = SetLine(@, e.line_no, e.style),
                 !.inserts = Append(@, e)]
    /\ UNCHANGED <<max_lines, pc, line_no, when, acall, sip, sip_messages,
                   dialogs, call_timeouts, links, acalls, channels, dials,
                   fnd, rd, txt, progress, cdr>>

NextGroup == \E e \in GroupInserts : GroupLine(e)

SpecGroup == InitGroup /\ [][NextGroup]_vars

----------------------------------------------------------------------------
(* get_linked_objects on a log of a pickup: the flat map of the lines *)

\* SIP/a-1 dials SIP/b from extension e under AstCall A.
ObjectsDial(e) ==
    DialLine("pbx_exec", "A", e, "Dial", "SIP/a-1", <<"SIP/b", ",", "20">>)

\* SIP/c-1 runs Pickup from extension e under AstCall B.
ObjectsPickup(e) == DialLine("pbx_exec", "B", e, "Pickup", "SIP/c-1", <<>>)

\* pickup SIP/b-1 attempt by SIP/c-1, a line of AstCall ac or of none.
ObjectsAttempt(ac) ==
    DialLine("ft_pickup", ac, "SIP/b-1", "SIP/c-1", None, <<>>)

\* SIP/c-1 answered SIP/a-1, a line of AstCall A.
ObjectsAnswer == DialLine("ad_answered", "A", "SIP/c-1", "SIP/a-1", None, <<>>)

\* The logs: the two channels enter the dialplan in either order and from
\* the same extension or not, the pickup is attempted or not, and the
\* Dial is answered.
ObjectsScripts ==
    {start \o attempt \o <<ObjectsAnswer>> :
        start \in UNION {{<<ObjectsDial(e1), ObjectsPickup(e2)>>,
                          <<ObjectsPickup(e2), ObjectsDial(e1)>>} :
                         e1 \in {"100", "200"}, e2 \in {"100", "200"}},
        attempt \in {<<>>} \cup {<<ObjectsAttempt(ac)>> :
                                    ac \in {None, "A", "B"}}}

InitObjects ==
    /\ InitParser
    /\ fnd = NoSearch /\ rd = NoRead /\ NoLoadOptions
    /\ \E items \in ObjectsScripts, ord \in SetOrders :
          /\ qry = [pc |-> "idle", log |-> items, ord |-> ord]
          /\ max_lines = Len(items)

\* The line the loop reads next.
NextObjectsLine == {qry.log[k] : k \in {line_no + 2} \cap 1..max_lines}

\* What a find is made for: an extension, the number dialled, a channel.
ObjectsRefs == {"100", "200", "b", "SIP/a-1", "SIP/c-1"}

NextObjects ==
    \/ \E l \in NextObjectsLine :
          \/ PbxLine(l)
          \/ FeaturesLine(l)
          \/ AppDialLine(l)
    \/ (line_no + 1 = max_lines /\ EndOfFile)
    \/ \E ref \in ObjectsRefs : FindRef(ref)

SpecObjects == InitObjects /\ [][NextObjects]_vars

----------------------------------------------------------------------------
(* Claims about the line loop and the SIP messages *)

\* finish_sip has run on message i: it is not the one being assembled, or
\* load_file has returned.
Finished(i) == i # sip \/ pc = "done"

Msgs == 1..Len(sip_messages)

InList(list, i) == \E k \in 1..Len(list) : list[k] = i

\* C3: after load_file returns, every message with a (non-empty) call_id is
\* in the sip_list of the dialog stored under that call_id, each dialog is
\* stored under its own call_id and holds messages of that call_id only, and
\* every sip_list is in ascending line_no order.
C3_DialogsHoldMessages ==
    pc = "done" =>
        /\ \A i \in Msgs :
              Truthy(sip_messages[i].call_id) =>
                  /\ HasDialog(sip_messages[i].call_id)
                  /\ InList(dialogs[sip_messages[i].call_id].sip_list, i)
                  /\ sip_messages[i].dialog = sip_messages[i].call_id
        /\ \A c \in CallIds :
              HasDialog(c) =>
                  /\ dialogs[c].call_id = c
                  /\ \A k \in 1..NAdded(c) : Added(c, k).call_id = c
                  /\ \A j \in 1..NAdded(c), k \in 1..NAdded(c) :
                        j < k => Added(c, j).line_no < Added(c, k).line_no

\* load_file has returned with two messages in the dialog of one call.
C3_Witness ==
    /\ pc = "done"
    /\ \E c \in CallIds : HasDialog(c) /\ NAdded(c) = 2

IsRequest(m) == Truthy(m.request)

\* The table of sender and recipient addresses.
AddressedByTable(m) ==
    /\ (IsRequest(m) /\ m.direction = "IN") =>
          /\ m.sender_addr = m.via_addr
          /\ m.recipient_addr = PyOr(m.to_addr, m.request_addr)
    /\ (IsRequest(m) /\ m.direction = "OUT") =>
          /\ m.sender_addr = m.via_addr
          /\ m.recipient_addr = m.request_addr
    /\ (~IsRequest(m) /\ m.direction = "IN") =>
          /\ m.request_sip # 0 =>
                m.sender_addr = sip_messages[m.request_sip].recipient_addr
          /\ m.recipient_addr = m.via_addr
    /\ (~IsRequest(m) /\ m.direction = "OUT") =>
          /\ m.sender_addr = m.to_addr
          /\ m.recipient_addr = m.via_addr

\* C4 as stated: every message the driver has finished has its sender_addr
\* and recipient_addr set by the table.
C4_AsStated == \A i \in Msgs : Finished(i) => AddressedByTable(sip_messages[i])

\* C4 amended: every message the driver has finished and that has a
\* (non-empty) call_id has its sender_addr and recipient_addr set by the
\* table; a finished message without call_id keeps both unset.
C4_AddressedWithCallId ==
    \A i \in Msgs :
        Finished(i) =>
            IF Truthy(sip_messages[i].call_id)
            THEN AddressedByTable(sip_messages[i])
            ELSE /\ sip_messages[i].sender_addr = None
                 /\ sip_messages[i].recipient_addr = None

\* A finished response read IN whose sender is the recipient of the request
\* it was matched with.
C4_Witness ==
    \E i \in Msgs :
        /\ Finished(i)
        /\ ~IsRequest(sip_messages[i])
        /\ sip_messages[i].direction = "IN"
        /\ sip_messages[i].request_sip # 0
        /\ sip_messages[i].sender_addr = "10.0.0.1"

ExactlyOneSet(m) == (m.request # None) # (m.status # None)

\* C5 as stated: after load_file returns, every message has exactly one of
\* request and status set.
C5_AsStated == pc = "done" => \A i \in Msgs : ExactlyOneSet(sip_messages[i])

\* C5 amended: after load_file returns, every message that took a header
\* line has exactly one of request and status set, and a message that took
\* none has neither.
C5_OneSetWithHeader ==
    pc = "done" =>
        \A i \in Msgs :
            IF sip_messages[i].header # <<>>
            THEN ExactlyOneSet(sip_messages[i])
            ELSE /\ sip_messages[i].request = None
                 /\ sip_messages[i].status = None

\* load_file has returned with a response and a request assembled.
C5_Witness ==
    /\ pc = "done"
    /\ \E i \in Msgs : sip_messages[i].status = "100 Trying"
    /\ \E i \in Msgs : sip_messages[i].request = "INVITE"

\* C8 as stated: load_file never aborts because of the content of a line.
C8_NeverAborts == pc # "aborted"

\* C9 as stated: after load_file returns, a call with a dialog for which a
\* retransmission-timeout line was read (call_timeouts holds the line_no
\* and time of the latest one) has that line's line_no and time in its
\* dialog's timeout.
C9_TimeoutRecorded ==
    pc = "done" =>
        \A c \in CallIds :
            (HasDialog(c) /\ call_timeouts[c] # <<>>) =>
                dialogs[c].timeout = call_timeouts[c]

\* The line is a timestamped log line: it begins with '['.
Timestamped(l) == l.kind \in TsKinds

\* C17: a timestamped log line offered to a message that is being
\* assembled ends the message and is stored neither in its header nor in
\* its body.
C17_AsStated ==
    \A i \in 1..Len(sip_messages) :
        /\ \A k \in 1..Len(sip_messages[i].header) :
              ~Timestamped(sip_messages[i].header[k])
        /\ \A k \in 1..Len(sip_messages[i].body) :
              ~Timestamped(sip_messages[i].body[k])

\* The line begins with '<--' or '---'.
Dashed(l) == l.kind \in {"banner_in", "banner_out", "banner_rel", "separator"}

Blank(l) == l.kind = "blank"

\* The message being assembled, before and after the step.
Active == sip_messages[sip]

ActiveAfter == sip_messages'[sip]

\* The step rejected the line: the message kept its header, body and
\* state and was released.
Rejected ==
    /\ sip' = 0
    /\ ActiveAfter.header = Active.header
    /\ ActiveAfter.body = Active.body
    /\ ActiveAfter.where = Active.where

\* The step accepted the line, leaving the given header, body and state.
Accepted(header, body, where) ==
    /\ sip' = sip
    /\ pc' = pc
    /\ ActiveAfter.header = header
    /\ ActiveAfter.body = body
    /\ ActiveAfter.where = where

\* add_header takes the line: it is not a first header line, or it is a
\* status line or a request line with its 'sip:' address.
HeaderTakes(m, l) == m.header # <<>> \/ l.kind \in {"status", "request"}

C25_AsStated ==
    [][\A l \in SipLines :
          OfferToSip(l) /\ Active.where = 1 /\ Blank(l) =>
              Accepted(Active.header, Active.body, 1)]_vars

\* C26 as stated: a banner line that the active message rejects starts a
\* new message.
C26_AsStated ==
    [][\A l \in SipLines :
          OfferToSip(l) /\ l.kind \in {"banner_in", "banner_out"} =>
              /\ Len(sip_messages') = Len(sip_messages) + 1
              /\ sip' = Len(sip_messages')]_vars

----------------------------------------------------------------------------
(* Claims about the Dial life cycle, checked under SpecDial *)

Dials == 1..Len(dials)

FinalStatuses == {"ANSWERED", "NO ANSWER", "BUSY", "EXIT", "PICKUP"}

\* The status the table gives a Dial that finishes with this status and
\* busy flag.
TableStatus(status, was_busy) ==
    CASE status = "RINGING" -> "NO ANSWER"
      [] status # "RINGING" /\ was_busy -> "BUSY"
      [] status # "RINGING" /\ ~was_busy
            /\ status \notin {"ANSWERED", "NO ANSWER", "PICKUP"} -> "EXIT"
      [] OTHER -> status

\* C6: whenever finish() runs on a Dial, its resulting status is one of
\* ANSWERED, NO ANSWER, BUSY, EXIT, PICKUP and is the one the table gives.
C6_FinishTable ==
    [][\A id \in Dials :
          dials'[id].n_finish > dials[id].n_finish =>
              /\ dials'[id].status \in FinalStatuses
              /\ dials'[id].status =
                    TableStatus(dials[id].status, dials[id].was_busy)]_vars

\* Finished Dials with each of the five resulting statuses are reached:
\* this one is a Dial that finished as PICKUP.
C6_Witness ==
    \E id \in Dials : dials[id].n_finish > 0 /\ dials[id].status = "PICKUP"

Chans == {n \in ChanNames : channels[n].name # None}

\* The most recently started Dial of channel n that has not finished;
\* 0 when there is none.
LatestOpenDial(n) ==
    LET open == {k \in 1..Len(channels[n].apps) :
                    ~dials[channels[n].apps[k]].ended}
    IN  IF open = {} THEN 0 ELSE channels[n].apps[Max(open)]

\* C7 as stated: each channel's current_dial is its most recently started
\* Dial that has not finished, none if all have finished.
C7_AsStated == \A n \in Chans : channels[n].current_dial = LatestOpenDial(n)

\* The states of the events in the log of a Dial, in order.
LogStates(d) == [k \in 1..Len(d.log) |-> d.log[k].state]

\* The events this step adds to the log of Dial id.
Appended(id) ==
    SubSeq(dials'[id].log, Len(dials[id].log) + 1, Len(dials'[id].log))

\* The phones the Dial data names: its devices up to the first comma,
\* without their technology.
DataPhones(data) ==
    LET stop == Min({k \in 1..Len(data) : data[k] = ","} \cup {Len(data) + 1})
        devs == SelectSeq(SubSeq(data, 1, stop - 1), LAMBDA t : t # "&")
    IN  [k \in 1..Len(devs) |-> DevicePhone(devs[k])]

C19_AsStated ==
    \A i, j \in Dials :
        \A k \in 1..Len(dials[i].log), m \in 1..Len(dials[j].log) :
            /\ dials[i].log[k].state = "PICKUP"
            /\ dials[j].log[m].state = "PICKUP"
            /\ dials[i].log[k].line_no = dials[j].log[m].line_no
            => i = j /\ k = m

\* C20 as stated: a PROGRESS event is in the log of a Dial only for a
\* line whose first channel, the one making progress, is the channel of
\* the Dial.
C20_AsStated ==
    \A id \in Dials :
        \A k \in 1..Len(dials[id].log) :
            dials[id].log[k].state = "PROGRESS" =>
                dials[id].log[k].chan = dials[id].channel

\* C20: a PROGRESS event is in the log of a Dial only for a line
\* 'X is making progress passing it to Y' whose Y is the channel of the
\* Dial; the event names X.
C20_ProgressPassedToOwner ==
    \A id \in Dials :
        \A k \in 1..Len(dials[id].log) :
            dials[id].log[k].state = "PROGRESS" =>
                \E l \in DialLines :
                    /\ l.kind = "ad_progress"
                    /\ l.x = dials[id].log[k].chan
                    /\ l.y = dials[id].channel

\* A Dial with a PROGRESS event.
C20_Witness ==
    \E id \in Dials :
        \E k \in 1..Len(dials[id].log) : dials[id].log[k].state = "PROGRESS"

\* This step is a ringing or busy event of Dial id.
RingsOrBusy(id) ==
    Appended(id) # <<>> /\ Appended(id)[1].state \in {"RINGING", "BUSY"}

\* This step runs finish() on Dial id.
Finishes(id) == dials'[id].n_finish > dials[id].n_finish

\* C36 as stated: once the status of a Dial is ANSWERED, no later ringing
\* or busy event and no later finish() changes it.
C36_AsStated ==
    [][\A id \in Dials :
          dials[id].status = "ANSWERED" /\ (RingsOrBusy(id) \/ Finishes(id))
              => dials'[id].status = "ANSWERED"]_vars

\* C36: once the status of a Dial is ANSWERED, no later ringing or busy
\* event changes it, and finish() leaves it ANSWERED unless a busy event
\* was recorded for the Dial, in which case it becomes BUSY; it never
\* becomes NO ANSWER or EXIT.
C36_AnsweredUnlessBusy ==
    [][\A id \in Dials :
          dials[id].status = "ANSWERED" =>
              /\ RingsOrBusy(id) => dials'[id].status = "ANSWERED"
              /\ Finishes(id) =>
                    dials'[id].status = IF dials[id].was_busy THEN "BUSY"
                                        ELSE "ANSWERED"]_vars

\* A Dial that was answered, never busy, and finished as ANSWERED.
C36_Witness ==
    \E id \in Dials :
        /\ dials[id].n_finish > 0
        /\ ~dials[id].was_busy
        /\ \E k \in 1..Len(dials[id].log) :
              dials[id].log[k].state = "ANSWERED"
        /\ dials[id].status = "ANSWERED"

\* The Dial that parse_app_dial_c finds for a line of AstCall ac; 0 when
\* there is none.
CurrentDial(ac) == IF ac = None THEN 0 ELSE acalls[ac].current_dial

\* This step reads the app_dial.c line l for the Dial id.
ReadsFor(l, id) == AppDialLine(l) /\ id # 0 /\ id = CurrentDial(l.acall)

\* C37: an 'answered' line whose reported caller channel is not the
\* channel of the current Dial leaves the status and the event log of
\* that Dial and the lines and the linked SIP set of its channel
\* unchanged, whether or not the answering channel has a recorded pickup
\* attempt.
C37_AsStated ==
    [][\A l \in DialLines, id \in Dials :
          /\ l.kind = "ad_answered"
          /\ ReadsFor(l, id)
          /\ l.y # dials[id].channel
          => /\ dials'[id].status = dials[id].status
             /\ dials'[id].log = dials[id].log
             /\ channels'[dials[id].channel].lines
                   = channels[dials[id].channel].lines
             /\ channels'[dials[id].channel].sip_set
                   = channels[dials[id].channel].sip_set]_vars

\* C38: after a Dial has finished, by finish() or nobody_picked_up(), no
\* later app_dial.c line of the same AstCall appends to its event log or
\* changes its status, and its status is never ACTIVE or RINGING again.
C38_AsStated ==
    [][\A l \in DialLines, id \in Dials :
          dials[id].ended /\ ReadsFor(l, id)
          => /\ dials'[id].log = dials[id].log
             /\ dials'[id].status = dials[id].status
             /\ dials'[id].status \notin {"ACTIVE", "RINGING"}]_vars

\* C39 as stated: the event log of each Dial is in non-decreasing line_no
\* order, and no entry has a line_no smaller than the line_no at which
\* the Dial was started.
C39_AsStated ==
    \A id \in Dials :
        /\ \A k, m \in 1..Len(dials[id].log) :
              k < m => dials[id].log[k].line_no <= dials[id].log[m].line_no
        /\ \A k \in 1..Len(dials[id].log) :
              dials[id].log[k].line_no >= dials[id].line_no

\* C39: the entries of a Dial's event log other than PICKUP are in
\* increasing line_no order and none is before the line at which the Dial
\* was started; a PICKUP entry carries the line_no of the pickup attempt,
\* which is smaller than that of every later entry of another kind and
\* may be smaller than that of earlier entries and of the Dial.
C39_OrderedButPickup ==
    \A id \in Dials :
        \A k, m \in 1..Len(dials[id].log) :
            dials[id].log[m].state # "PICKUP" =>
                /\ dials[id].log[m].line_no > dials[id].line_no
                /\ k < m => dials[id].log[k].line_no
                                < dials[id].log[m].line_no

\* A Dial that was answered by a channel whose pickup attempt precedes
\* the Dial: its log holds the PICKUP of that earlier line, then ANSWERED.
C39_Witness ==
    \E id \in Dials :
        /\ Len(dials[id].log) = 2
        /\ dials[id].log[1].state = "PICKUP"
        /\ dials[id].log[1].line_no < dials[id].line_no
        /\ dials[id].log[2].state = "ANSWERED"

----------------------------------------------------------------------------
(* Claims about the queries, checked under SpecQuery *)

\* The overviews of the groups, in order.
Overviews(groups) == [k \in 1..Len(groups) |-> groups[k].overview]

\* What the last get_linked_objects would have returned had the sets been
\* iterated in the order ord and the depth been max_depth.
Requeried(max_depth, ord) ==
    GetLinkedObjects(Graph, acalls, qry.ref, qry.isolate, max_depth, ord)

WasLinked == qry.pc = "queried" /\ qry.op = "get_linked_objects"

\* C13: for a fixed graph, reference, isolation tuple and max_depth,
\* get_linked_objects returns the same overviews and the same line map
\* whatever order the sets are iterated in.
C13_AsStated ==
    WasLinked =>
        \A ord \in SetOrders :
            /\ Requeried(qry.max_depth, ord).raised = qry.raised
            /\ Overviews(Requeried(qry.max_depth, ord).groups)
                   = Overviews(qry.groups)
            /\ Requeried(qry.max_depth, ord).objects = qry.objects

\* How many messages, AstCalls and channels are linked to the reference
\* of the last get_linked_objects, at any depth.
LinkedEntities ==
    LET st == LinkAll(Graph, acalls, qry.ref,
                      [max_depth |-> LargeDepth, ord |-> qry.ord])
    IN  Cardinality(st.mark_sip) + Cardinality(st.mark_acall)
        + Cardinality(st.mark_channel)

\* The overviews and the line map are those of the large depth.
SameAsLargeDepth ==
    /\ Overviews(qry.groups)
           = Overviews(Requeried(LargeDepth, qry.ord).groups)
    /\ qry.objects = Requeried(LargeDepth, qry.ord).objects

\* C14 as stated: with max_depth = 10 get_linked_objects returns the
\* overviews and the line map it returns with max_depth = 100.
C14_AsStated ==
    WasLinked /\ qry.max_depth = DefaultDepth => SameAsLargeDepth

\* C14: with max_depth = 10 get_linked_objects returns the overviews and
\* the line map it returns with max_depth = 100 whenever at most
\* max_depth + 1 messages, AstCalls and channels are linked to the
\* reference.
C14_SameClosureWhenSmall ==
    WasLinked /\ qry.max_depth = DefaultDepth
              /\ LinkedEntities <= DefaultDepth + 1
        => SameAsLargeDepth

\* A find whose reference has exactly max_depth + 1 entities linked to it,
\* all of them in the one group returned.
C14_Witness ==
    /\ WasLinked
    /\ qry.max_depth = DefaultDepth
    /\ qry.isolate = NoIsolation
    /\ LinkedEntities = DefaultDepth + 1
    /\ Len(qry.groups) = 1
    /\ Len(qry.groups[1].overview) >= MaxMsgs

\* C15: given an isolation tuple, get_linked_objects returns at most one
\* group, and every group it returns holds an overview entry of the
\* tuple's kind for the entity the tuple identifies (for call_id and
\* sip_ref the first message of the dialog).
C15_AsStated ==
    WasLinked /\ qry.isolate # NoIsolation =>
        /\ ~qry.raised
        /\ Len(qry.groups) <= 1
        /\ \A k \in 1..Len(qry.groups) :
              HoldsEntry(qry.groups[k],
                         IsolatedObject(Graph, acalls, qry.isolate))

\* The entities and the indexes of the parser.
ParserState ==
    <<sip_messages, dialogs, call_timeouts, links, acalls, channels, dials>>

\* C16: a query leaves the entities and the indexes of the parser as they
\* are, and so a find with no isolation, or an isolation that is reset, is
\* answered as the same call is answered in the state the query leaves.
C16_QueriesReadOnly ==
    [][pc = "done" =>
          /\ UNCHANGED ParserState
          /\ WasLinked' /\ qry'.isolate = NoIsolation =>
                /\ qry'.groups
                     = GetLinkedObjects(Graph', acalls', qry'.ref, NoIsolation,
                                        qry'.max_depth, qry'.ord).groups
                /\ qry'.objects
                     = GetLinkedObjects(Graph', acalls', qry'.ref, NoIsolation,
                                        qry'.max_depth, qry'.ord).objects]_vars

\* The isolation was set and is reset: the find is answered again with
\* no isolation, by a group with an AstCall that a call is tied to.
C16_Witness ==
    /\ WasLinked
    /\ qry.isolate = NoIsolation
    /\ qry.groups # <<>>
    /\ \E a \in DOMAIN acalls :
          /\ acalls[a].call_id_set # {}
          /\ \E k \in 1..Len(qry.groups[1].overview) :
                qry.groups[1].overview[k].name = a

\* The overview entries of the returned groups that are of object e.
EntriesOf(e) ==
    UNION {{<<i, k>> : k \in {j \in 1..Len(qry.groups[i].overview) :
                                  /\ qry.groups[i].overview[j].kind = e.kind
                                  /\ qry.groups[i].overview[j].sip = e.sip
                                  /\ qry.groups[i].overview[j].name = e.name}} :
           i \in 1..Len(qry.groups)}

\* The returned groups in which message m was expanded: those that hold
\* its line as a 'sip' line.
ExpandedIn(m) ==
    {i \in 1..Len(qry.groups) :
        /\ m.line_no \in DOMAIN qry.groups[i].lines
        /\ qry.groups[i].lines[m.line_no] = "sip"}

\* The messages, AstCalls and channels of the log that are linked in a
\* cycle: a message and the dialog that lists it, a channel and an
\* AstCall that hold each other, an AstCall and a message that hold each
\* other.
Cyclic ==
    /\ \E i \in 1..Len(sip_messages) :
          /\ sip_messages[i].dialog # None
          /\ sip_messages[i].acall # None
          /\ i \in acalls[sip_messages[i].acall].sip_set
    /\ \E n \in ChanNames, a \in DOMAIN acalls :
          a \in channels[n].acall_set /\ n \in acalls[a].channel_set

\* C33: get_linked_objects returns on every graph of entities, cyclic
\* ones included, and no message, AstCall or channel has more than one
\* overview entry in all the groups returned, each being expanded once.
C33_OneEntryEach ==
    WasLinked /\ ~qry.raised =>
        /\ \A i \in 1..Len(qry.groups) :
              \A k \in 1..Len(qry.groups[i].overview) :
                  Cardinality(EntriesOf(qry.groups[i].overview[k])) = 1
        /\ \A j \in 1..Len(sip_messages) :
              Cardinality(ExpandedIn(sip_messages[j])) <= 1

\* A find on a graph with the cycles returned a group that holds a
\* dialog, an AstCall and a channel.
C33_Witness ==
    /\ WasLinked
    /\ Cyclic
    /\ qry.isolate = NoIsolation
    /\ \E i \in 1..Len(qry.groups) :
          \A kind \in {"dialog", "astcall", "channel"} :
              \E k \in 1..Len(qry.groups[i].overview) :
                  qry.groups[i].overview[k].kind = kind

----------------------------------------------------------------------------
(* Claims about the text of a message, checked under SpecText *)

\* The log of the example: an intro line of chan_sip.c, the INVITE, its
\* From, To, Call-ID, CSeq and Via lines and a blank line.
ExampleText ==
    <<"[10:00:00] VERBOSE[1][A] chan_sip.c: Transmitting (no NAT) to 10.0.0.1:5060:",
      "INVITE sip:bob@10.0.0.1 SIP/2.0",
      "From: \"Alice\" <sip:100@h>",
      "To: <sip:200@10.0.0.1>",
      "Call-ID: X@h",
      "CSeq: 1 INVITE",
      "Via: SIP/2.0/UDP 10.0.0.2:5060;branch=z9hG4bK1",
      "">>

\* C23: the example yields exactly one message, OUT, with call_id X@h,
\* sender_addr 10.0.0.2:5060, recipient_addr 10.0.0.1:5060, from_num 100
\* and to_num 200.
C23_AsStated ==
    (pc = "done" /\ txt.pc = "given" /\ txt.lines = ExampleText) =>
        /\ Len(sip_messages) = 1
        /\ sip_messages[1].direction = "OUT"
        /\ sip_messages[1].call_id = "X@h"
        /\ sip_messages[1].sender_addr = "10.0.0.2:5060"
        /\ sip_messages[1].recipient_addr = "10.0.0.1:5060"
        /\ sip_messages[1].from_num = "100"
        /\ sip_messages[1].to_num = "200"

----------------------------------------------------------------------------
(* Claims about the progress callback, checked under SpecProgress *)

\* The step calls the callback.
Called == progress'.calls > progress.calls

\* C22 as stated: during the log pass load_file calls the callback once
\* every 10000 lines, not on every line.
C22_AsStated ==
    [][Called /\ line_no' = line_no + 1 => line_no' % FooterEvery = 0]_vars

\* C22: during the log pass load_file calls the callback once for every
\* line, with the line's line_no and the byte position after the line;
\* the callback writes the footer and draws the screen only when line_no
\* is a multiple of 10000.
C22_CalledEveryLine ==
    [][line_no' = line_no + 1 =>
          /\ progress'.calls = progress.calls + 1
          /\ progress'.module = "log"
          /\ progress'.line_no = line_no'
          /\ progress'.data_pos = (line_no' + 1) * progress.line_size
          /\ progress'.drawn = progress.drawn
                + (IF line_no' % FooterEvery = 0 THEN 1 ELSE 0)]_vars

\* The callback has been called for the line 10000 and has drawn the
\* screen twice, for the lines 0 and 10000.
C22_Witness ==
    /\ progress.pc = "given"
    /\ progress.line_no = FooterEvery
    /\ progress.calls = FooterEvery + 1
    /\ progress.drawn = 2
    /\ progress.footer = <<"log", FooterEvery>>

----------------------------------------------------------------------------
(* Claims about the CDR enrichment, checked under SpecCdr *)

\* load_file has returned after load_cdr.
CdrDone == pc = "done" /\ cdr.pc = "returned"

\* The rows of at least 16 columns whose time is inside the window of the
\* log, from its first time to its last.
InWindow ==
    {i \in 1..Len(cdr.rows) :
        /\ cdr.rows[i].cols >= 16
        /\ parse_when(<<FirstWhen(cdr.log)>>) <= cdr.rows[i].t
        /\ cdr.rows[i].t <= parse_when(<<when>>)}

Exists(n) == channels[n].name # None

\* C21: during CDR enrichment a row with fewer than 16 columns has no
\* effect, and every row with at least 16 columns inside the log's time
\* window is used: its src, dst and caller id are linked in
\* phone_channel_map to the existing channels named in its chan and
\* dst_chan columns, and the chan channel receives the CLID name and
\* number, wherever in the file the window starts, offset 0 included.
C21_AsStated ==
    CdrDone =>
        /\ \A i \in InWindow :
              LET r == cdr.rows[i]
              IN  /\ \A n \in {r.chan, r.dst_chan}, p \in CdrPhones(r) :
                        Exists(n) => n \in links.phone_channel_map[p]
                  /\ Exists(r.chan) =>
                        /\ channels[r.chan].clid_name = r.clid_name
                        /\ channels[r.chan].clid_num = r.clid_num
        /\ \A p \in Phones \ {"100"}, n \in ChanNames :
              n \in links.phone_channel_map[p] =>
                 \E i \in 1..Len(cdr.rows) :
                    /\ cdr.rows[i].cols >= 16
                    /\ p \in CdrPhones(cdr.rows[i])
                    /\ n \in {cdr.rows[i].chan, cdr.rows[i].dst_chan}

----------------------------------------------------------------------------
(* Claims about the pickup, checked under SpecPickup *)

\* The 200 OK messages from this phone that are numbered within the lines
\* first..last.
OkFrom(phone, first, last) ==
    {i \in 1..Len(sip_messages) :
        /\ sip_messages[i].status = "200 OK"
        /\ sip_messages[i].from_num = phone
        /\ first <= sip_messages[i].line_no
        /\ sip_messages[i].line_no <= last}

\* The phone of a channel of the log: SIP/c-1 is c.
AnswererPhone(chan) ==
    CASE chan = "SIP/c-1" -> "c" [] chan = "SIP/b-1" -> "b" [] OTHER -> "a"

\* C31: when an 'answered' line is read for a Dial (it names the Dial's
\* channel as the caller) and the answering channel is in the map of
\* pickup attempts, the Dial's log gains a PICKUP event with the line_no
\* and the time of the pickup line and, right after it, the ANSWERED event
\* of the line, and the status ends as ANSWERED; the Dial's channel gains
\* a SIP message only if a 200 OK from the answerer's phone is numbered
\* within the lines from the pickup line to the answer line, and then the
\* latest such message.
C31_PickupThenAnswered ==
    [][\A l \in PickupAnswers, id \in Dials :
          /\ ReadsFor(l, id)
          /\ l.y = dials[id].channel
          /\ links.pickup_chans[l.x] # <<>>
          => LET pick == links.pickup_chans[l.x]
                 ok == OkFrom(AnswererPhone(l.x), pick[1], line_no')
                 ch == dials[id].channel
             IN  /\ Len(Appended(id)) = 2
                 /\ Appended(id)[1].state = "PICKUP"
                 /\ Appended(id)[1].line_no = pick[1]
                 /\ Appended(id)[1].when = pick[2]
                 /\ Appended(id)[2].state = "ANSWERED"
                 /\ Appended(id)[2].line_no = line_no'
                 /\ dials'[id].status = "ANSWERED"
                 /\ channels'[ch].sip_set =
                       channels[ch].sip_set
                          \cup {i \in ok : \A j \in ok : j <= i}]_vars

\* The Dial was picked up and answered by SIP/c-1, two 200 OK messages
\* from c lie between the pickup and the answer, and the channel of the
\* Dial is linked to the second.
C31_Witness ==
    /\ Len(dials) = 1
    /\ LogStates(dials[1]) = <<"PICKUP", "ANSWERED">>
    /\ dials[1].status = "ANSWERED"
    /\ Len(sip_messages) = 2
    /\ \A i \in 1..2 : /\ sip_messages[i].status = "200 OK"
                       /\ sip_messages[i].from_num = "c"
                       /\ sip_messages[i].line_no > dials[1].log[1].line_no
    /\ channels["SIP/a-1"].sip_set = {2}

----------------------------------------------------------------------------
(* Claims about request_sip, checked under SpecCseq *)

\* The requests with the cseq of message i that were in its dialog when
\* it was finished.
RequestsBefore(i) ==
    {j \in 1..(i - 1) :
        /\ sip_messages[j].call_id = sip_messages[i].call_id
        /\ Truthy(sip_messages[j].request)
        /\ sip_messages[j].cseq = sip_messages[i].cseq}

\* C32: the request_sip of a response finished within a dialog is the
\* latest message already in that dialog that is a request and has the
\* cseq of the response, and stays unset if there is none; a request
\* never gets a request_sip.
C32_LatestRequestWithCseq ==
    \A i \in 1..Len(sip_messages) :
        LET m == sip_messages[i]
        IN  /\ Truthy(m.request) => m.request_sip = 0
            /\ Truthy(m.status) /\ m.dialog # None =>
                  m.request_sip = IF RequestsBefore(i) = {} THEN 0
                                  ELSE Max(RequestsBefore(i))

\* An INVITE, the same INVITE again and their 200 OK: the response is
\* matched with the second request.
C32_Witness ==
    /\ Len(sip_messages) = 3
    /\ \A i \in 1..2 : /\ sip_messages[i].request = "INVITE"
                       /\ sip_messages[i].cseq = "1 INVITE"
                       /\ sip_messages[i].call_id = "X"
    /\ sip_messages[3].status = "200 OK"
    /\ sip_messages[3].dialog = "X"
    /\ sip_messages[3].request_sip = 2

----------------------------------------------------------------------------
(* Claims about the line map of a group, checked under SpecGroup *)

\* The insert this step makes.
Inserted == qry'.inserts[Len(qry'.inserts)]

\* Line ln received an insert of this style.
Received(inserts, ln, style) ==
    \E k \in 1..Len(inserts) :
        inserts[k].line_no = ln /\ inserts[k].style = style

\* C34: in the line map of one group an insert of style 'verbose' never
\* replaces an entry that is there for the line_no, and an insert of
\* style 'channel' always replaces it; so a line_no that received a
\* 'channel' and a 'verbose' insert has style 'channel', whichever came
\* first.
C34_ChannelWinsInGroup ==
    [][LET ln == Inserted.line_no
           old == qry.group.lines
           new == qry'.group.lines
       IN  /\ Inserted.style = "verbose" /\ ln \in DOMAIN old =>
                 new[ln] = old[ln]
           /\ Inserted.style = "channel" => new[ln] = "channel"
           /\ \A n \in DOMAIN new :
                 /\ Received(qry'.inserts, n, "channel")
                 /\ Received(qry'.inserts, n, "verbose")
                 => new[n] = "channel"]_vars

\* Line 1 was inserted as 'channel' and then as 'verbose', line 2 as
\* 'verbose' and then as 'channel'.
C34_Witness ==
    /\ qry.pc = "group"
    /\ Len(qry.inserts) = 4
    /\ qry.inserts[1] = [line_no |-> 1, style |-> "channel"]
    /\ qry.inserts[2] = [line_no |-> 1, style |-> "verbose"]
    /\ qry.inserts[3] = [line_no |-> 2, style |-> "verbose"]
    /\ qry.inserts[4] = [line_no |-> 2, style |-> "channel"]
    /\ qry.group.lines[1] = "channel"
    /\ qry.group.lines[2] = "channel"

----------------------------------------------------------------------------
(* Claims about the flat map of the lines, checked under SpecObjects *)

\* The lines some returned group holds with this style.
HeldAs(style) ==
    UNION {{n \in DOMAIN qry.groups[k].lines :
              qry.groups[k].lines[n] = style} : k \in 1..Len(qry.groups)}

\* C35: in the flat line map get_linked_objects returns, a line_no that
\* some returned group holds with style 'channel' has style 'channel'; a
\* 'verbose' entry of another returned group for it never replaces it.
C35_AsStated ==
    /\ qry.pc = "queried"
    /\ qry.op = "get_linked_objects"
    /\ ~qry.raised
    => \A n \in HeldAs("channel") : qry.objects[n] = "channel"

----------------------------------------------------------------------------
(* Claims about read_data, checked under SpecRead *)

\* The times of the timestamped lines that lie in the last TailWindow bytes
\* of the file.
TailTimes(ls) ==
    {ls[i].t : i \in {k \in 1..Len(ls) :
                         /\ ls[k].t # 0
                         /\ LineStart(ls, k) >= FileSize(ls) - TailWindow}}

\* C11 as stated: with tail_minutes set, once the tail of the file has been
\* looked at, from_when is the latest timestamp present in the tail minus
\* tail_minutes minutes, and to_when is cleared.
C11_AsStated ==
    (rd.pc # "tail" /\ rd.tail_minutes # 0 /\ TailTimes(rd.file) # {}) =>
        /\ rd.from_when = StrWhen(Max(TailTimes(rd.file)) - rd.tail_minutes)
        /\ rd.to_when = <<>>

\* C12: read_data reads the span only after every check has passed. A run
\* that raised has read no span; a run that returned a span found the
\* position of from_when and of to_when where they were asked for, had no
\* negative number of bytes, and twice the size of the span was not more
\* than use_memory_pct percent of the memory of the system, use_memory_pct
\* being the value asked for held in 5..75, and 5 for none.
C12_ChecksBeforeRead ==
    /\ rd.pc # "returned" => rd.data = <<>>
    /\ rd.use_memory_pct =
          (IF rd.pct_arg = 0 THEN 5
           ELSE IF rd.pct_arg < 5 THEN 5
           ELSE IF rd.pct_arg > 75 THEN 75 ELSE rd.pct_arg)
    /\ rd.pc = "returned" =>
          /\ rd.from_when # <<>> =>
                /\ SizedFind(rd.file, rd.from_when, "after") # NoPos
                /\ rd.data[1] = SizedFind(rd.file, rd.from_when, "after")
          /\ rd.to_when # <<>> =>
                /\ SizedFind(rd.file, rd.to_when, "before") # NoPos
                /\ rd.num_bytes >= 0
          /\ rd.size = (IF rd.to_when = <<>> THEN FileSize(rd.file)
                        ELSE rd.num_bytes)
          /\ rd.mem_size # 0 =>
                ~(2 * rd.size * 100 > rd.use_memory_pct * rd.mem_size)

\* A run that was refused for its size, after both positions were found,
\* and so read nothing.
C12_Witness ==
    /\ rd.pc = "raised"
    /\ rd.error = "LogParserError"
    /\ rd.from_when # <<>> /\ rd.to_when # <<>>
    /\ rd.size > 0
    /\ rd.data = <<>>

----------------------------------------------------------------------------
(* Claims about find_file_position, checked under SpecFind *)

\* The positions where a timestamped line of the file starts.
TsLineStarts(file) ==
    {p \in 0..(Len(file) - 1) :
        /\ p = 0 \/ ByteAt(file, p - 1) = "\n"
        /\ ByteAt(file, p) = "["
        /\ Find(file, "]", p) > p
        /\ parse_when(Slice(file, p + 1, Find(file, "]", p))) # 0}

TimeAt(file, p) == parse_when(Slice(file, p + 1, Find(file, "]", p)))

\* C10 as stated: for a log in non-decreasing time order, the search in
\* 'after' mode returns the offset of the first timestamped line at or after
\* the instant, and no position only if there is no such line; in 'before'
\* mode it returns the offset of the last timestamped line at or before the
\* instant.
C10_AsStated ==
    (fnd.pc = "returned" /\ fnd.ts # 0) =>
        LET after == {p \in TsLineStarts(fnd.file) :
                         TimeAt(fnd.file, p) >= fnd.ts}
            before == {p \in TsLineStarts(fnd.file) :
                          TimeAt(fnd.file, p) <= fnd.ts}
        IN  IF fnd.direction = "after"
            THEN fnd.good_pos = (IF after = {} THEN NoPos ELSE Min(after))
            ELSE before # {} => fnd.good_pos = Max(before)

====
